---- MODULE Spec2Model ----
(***************************************************************************)
(* Tool-calling turn protocol of the chat view: response parser,           *)
(* truthfulness ledger and turn orchestrator (runStreamWithMessages).      *)
(*                                                                         *)
(* A text is a sequence of tokens.  A token is a string standing for a run *)
(* of characters of the real text: a brace, a code fence, a newline, a     *)
(* word, a URL, or a whole JSON member such as "type":"final_answer".      *)
(* Concatenation, trimming, slicing, line splitting, brace counting and    *)
(* JSON decoding are computed on the token sequence the way the code       *)
(* computes them on characters.                                            *)
(***************************************************************************)
EXTENDS Integers, Sequences, FiniteSets, TLC

(* ------------------------------ tokens -------------------------------- *)
LB == "{"
RB == "}"
\* the three-backtick code fence
FENCE == "<fence>"
TAGJSON == "json"
NL == "\n"
SP == " "
\* opening of the member "content":"  and the closing quote of a JSON string
CQ == "\"content\":\""
QT == "\""
\* the two characters backslash-n inside a JSON string (an escaped newline)
ESCNL == "\\n"
ARGS == "\"arguments\":"
\* the member "arguments":null, whose value is no object
ARGSNULL == "\"arguments\":null"
RESULTS == "\"results\":["
RBRACK == "]"
LBRACK == "["

TypeAtoms == {"\"type\":\"final_answer\"", "\"type\":\"tool_request\"", "\"type\":\"other\""}
NameAtoms == {"\"tool_name\":\"write_file\"", "\"tool_name\":\"web_search\"",
              "\"tool_name\":\"run_command\"", "\"tool_name\":\"obsidian_write_note\"",
              "\"tool_name\":5"}
CountAtoms == {"\"result_count\":0", "\"result_count\":1", "\"result_count\":2",
               "\"result_count\":\"1\""}
ProviderAtoms == {"\"provider\":\"duckduckgo\"", "\"provider\":\"\""}
UrlAtoms == {"\"url\":\"https://example.com/1\"", "\"url\":\"https://example.com/2\"",
             "\"url\":\"\""}
\* members no reader of the object looks at
OtherAtoms == {"\"ok\":true", "\"query\":\"x\"", "\"path\":\"a.txt\"", "\"results\":null"}

WS == {SP, NL}
\* distinct URLs that tool outputs may hold
MaxUrls == 22
Url(k) == "https://example.com/" \o ToString(k)
Urls == {Url(k) : k \in 1..MaxUrls}
Words == {"After", "after", "AFTER", "searching", "Searching", "the", "web", "I", "i",
          "looked", "it", "up", "found", "online", "according", "According", "to", "my",
          "search", "results", "result", "show", "indicate", "from", "internet", "quick",
          "shows", "reveals", "searched", "capital", "is", "Paris", "hello", "used",
          "training", "knowledge", "researching", "there", "ed", ".", ","}
\* tokens that may stand inside a JSON string literal
StrChars == Words \cup Urls \cup {SP, LB, RB, FENCE, TAGJSON, ESCNL}

(* ------------------------------- texts -------------------------------- *)
\* `const v = x; F(v)`: x is evaluated once, and F applied to its value
Bind(x, F(_)) == CHOOSE out \in {F(v) : v \in {x}} : TRUE

RECURSIVE SkipWs(_, _)
\* first index >= i of s that holds no whitespace token (Len(s)+1 when none)
SkipWs(s, i) ==
  IF i > Len(s) THEN Len(s) + 1
  ELSE IF s[i] \in WS THEN SkipWs(s, i + 1) ELSE i

RECURSIVE SkipWsBack(_, _)
\* last index <= i of s that holds no whitespace token (0 when none)
SkipWsBack(s, i) ==
  IF i < 1 THEN 0
  ELSE IF s[i] \in WS THEN SkipWsBack(s, i - 1) ELSE i

\* String.prototype.trim
Trim(s) ==
  Bind(SkipWs(s, 1), LAMBDA a :
    Bind(SkipWsBack(s, Len(s)), LAMBDA b :
      IF a > b THEN <<>> ELSE SubSeq(s, a, b)))

RECURSIVE IndexFrom(_, _, _)
\* first index >= i of s holding token t, 0 when none
IndexFrom(s, t, i) ==
  IF i > Len(s) THEN 0
  ELSE IF s[i] = t THEN i ELSE IndexFrom(s, t, i + 1)

RECURSIVE JoinFrom(_, _, _)
\* the elements i.. of parts, with sep between them
JoinFrom(parts, sep, i) ==
  IF i > Len(parts) THEN <<>>
  ELSE IF i = Len(parts) THEN parts[i]
  ELSE parts[i] \o sep \o JoinFrom(parts, sep, i + 1)

\* Array.prototype.join on a sequence of texts
Join(parts, sep) == Bind(parts, LAMBDA ps : JoinFrom(ps, sep, 1))

IsSuffix(suf, s) ==
  /\ Len(suf) <= Len(s)
  /\ SubSeq(s, Len(s) - Len(suf) + 1, Len(s)) = suf

IsPrefix(pre, s) ==
  /\ Len(pre) <= Len(s)
  /\ SubSeq(s, 1, Len(pre)) = pre

(* ----------------------------- JSON.parse ----------------------------- *)
\* the value of a "type" member
TypeValue(a) ==
  CASE a = "\"type\":\"final_answer\"" -> "final_answer"
    [] a = "\"type\":\"tool_request\"" -> "tool_request"
    [] OTHER -> "other"

\* the value of a "tool_name" member; isStr is false for a number
NameValue(a) ==
  CASE a = "\"tool_name\":\"write_file\"" -> [isStr |-> TRUE, val |-> "write_file"]
    [] a = "\"tool_name\":\"web_search\"" -> [isStr |-> TRUE, val |-> "web_search"]
    [] a = "\"tool_name\":\"run_command\"" -> [isStr |-> TRUE, val |-> "run_command"]
    [] a = "\"tool_name\":\"obsidian_write_note\"" -> [isStr |-> TRUE, val |-> "obsidian_write_note"]
    [] OTHER -> [isStr |-> FALSE, val |-> ""]

\* the value of a "result_count" member; isNum is false for a string
CountValue(a) ==
  CASE a = "\"result_count\":0" -> [isNum |-> TRUE, val |-> 0]
    [] a = "\"result_count\":1" -> [isNum |-> TRUE, val |-> 1]
    [] a = "\"result_count\":2" -> [isNum |-> TRUE, val |-> 2]
    [] OTHER -> [isNum |-> FALSE, val |-> 0]

ProviderValue(a) ==
  IF a = "\"provider\":\"duckduckgo\"" THEN "duckduckgo" ELSE ""

UrlValue(a) ==
  CASE a = "\"url\":\"https://example.com/1\"" -> "https://example.com/1"
    [] a = "\"url\":\"https://example.com/2\"" -> "https://example.com/2"
    [] OTHER -> ""

\* JSON string decoding: the escape \n becomes a newline character
Decode(chars) ==
  [k \in 1..Len(chars) |-> IF chars[k] = ESCNL THEN NL ELSE chars[k]]

\* the string literal opened by the token at i: its decoded value and the index after
\* its closing quote; a raw newline or a quote inside it ends the parse
ParseString(s, i) ==
  Bind(IndexFrom(s, QT, i + 1), LAMBDA j :
    IF j = 0 \/ \E k \in (i + 1)..(j - 1) : s[k] \notin StrChars
    THEN [ok |-> FALSE, val |-> <<>>, next |-> 0]
    ELSE [ok |-> TRUE, val |-> Decode(SubSeq(s, i + 1, j - 1)), next |-> j + 1])

\* the "arguments" value of a tool request: its content string (when it has one)
\* and its other members
NoArgs == [isObj |-> FALSE, hasContent |-> FALSE, content |-> <<>>, rest |-> <<>>]
EmptyArgs == [isObj |-> TRUE, hasContent |-> FALSE, content |-> <<>>, rest |-> <<>>]

RECURSIVE ParseArgs(_, _, _)
\* members of the arguments object from index i up to its closing brace
ParseArgs(s, i, acc) ==
  IF i > Len(s) THEN [ok |-> FALSE, val |-> acc, next |-> 0]
  ELSE IF s[i] \in WS THEN ParseArgs(s, i + 1, acc)
  ELSE IF s[i] = RB THEN [ok |-> TRUE, val |-> acc, next |-> i + 1]
  ELSE IF s[i] = CQ THEN
    Bind(ParseString(s, i), LAMBDA str :
      IF str.ok
      THEN ParseArgs(s, str.next, [acc EXCEPT !.hasContent = TRUE, !.content = str.val])
      ELSE [ok |-> FALSE, val |-> acc, next |-> 0])
  ELSE IF s[i] \in OtherAtoms \cup UrlAtoms \cup CountAtoms \cup ProviderAtoms
                  \cup TypeAtoms \cup NameAtoms
    THEN ParseArgs(s, i + 1, [acc EXCEPT !.rest = Append(@, s[i])])
  ELSE [ok |-> FALSE, val |-> acc, next |-> 0]

RECURSIVE ParseEntry(_, _, _)
\* one element {...} of a results array, from index i up to its closing brace: its url
ParseEntry(s, i, url) ==
  IF i > Len(s) THEN [ok |-> FALSE, val |-> url, next |-> 0]
  ELSE IF s[i] \in WS THEN ParseEntry(s, i + 1, url)
  ELSE IF s[i] = RB THEN [ok |-> TRUE, val |-> url, next |-> i + 1]
  ELSE IF s[i] \in UrlAtoms THEN ParseEntry(s, i + 1, UrlValue(s[i]))
  ELSE IF s[i] \in OtherAtoms \cup CountAtoms \cup ProviderAtoms \cup TypeAtoms \cup NameAtoms
    THEN ParseEntry(s, i + 1, url)
  ELSE [ok |-> FALSE, val |-> url, next |-> 0]

RECURSIVE ParseResults(_, _, _)
\* elements of a results array from index i up to its closing bracket: their urls
ParseResults(s, i, acc) ==
  IF i > Len(s) THEN [ok |-> FALSE, val |-> acc, next |-> 0]
  ELSE IF s[i] \in WS THEN ParseResults(s, i + 1, acc)
  ELSE IF s[i] = RBRACK THEN [ok |-> TRUE, val |-> acc, next |-> i + 1]
  ELSE IF s[i] = LB THEN
    Bind(ParseEntry(s, i + 1, ""), LAMBDA e :
      IF e.ok THEN ParseResults(s, e.next, Append(acc, e.val))
      ELSE [ok |-> FALSE, val |-> acc, next |-> 0])
  ELSE [ok |-> FALSE, val |-> acc, next |-> 0]

\* a parsed object: the members the program reads
EmptyObj ==
  [type |-> "", nameIsStr |-> FALSE, tool_name |-> "",
   hasContent |-> FALSE, content |-> <<>>, arguments |-> NoArgs,
   countIsNum |-> FALSE, result_count |-> 0,
   resultsIsArray |-> FALSE, results |-> <<>>,
   hasProvider |-> FALSE, provider |-> ""]

RECURSIVE ParseMembers(_, _, _)
\* members of the top-level object from index i up to its closing brace; a later
\* member with the same key replaces an earlier one
ParseMembers(s, i, acc) ==
  IF i > Len(s) THEN [ok |-> FALSE, val |-> acc, next |-> 0]
  ELSE IF s[i] \in WS THEN ParseMembers(s, i + 1, acc)
  ELSE IF s[i] = RB THEN [ok |-> TRUE, val |-> acc, next |-> i + 1]
  ELSE IF s[i] \in TypeAtoms
    THEN ParseMembers(s, i + 1, [acc EXCEPT !.type = TypeValue(s[i])])
  ELSE IF s[i] \in NameAtoms
    THEN ParseMembers(s, i + 1, [acc EXCEPT !.nameIsStr = NameValue(s[i]).isStr,
                                            !.tool_name = NameValue(s[i]).val])
  ELSE IF s[i] \in CountAtoms
    THEN ParseMembers(s, i + 1, [acc EXCEPT !.countIsNum = CountValue(s[i]).isNum,
                                            !.result_count = CountValue(s[i]).val])
  ELSE IF s[i] \in ProviderAtoms
    THEN ParseMembers(s, i + 1, [acc EXCEPT !.hasProvider = TRUE,
                                            !.provider = ProviderValue(s[i])])
  ELSE IF s[i] = "\"results\":null"
    THEN ParseMembers(s, i + 1, [acc EXCEPT !.resultsIsArray = FALSE, !.results = <<>>])
  ELSE IF s[i] \in OtherAtoms \cup UrlAtoms THEN ParseMembers(s, i + 1, acc)
  ELSE IF s[i] = CQ THEN
    Bind(ParseString(s, i), LAMBDA str :
      IF str.ok
      THEN ParseMembers(s, str.next, [acc EXCEPT !.hasContent = TRUE, !.content = str.val])
      ELSE [ok |-> FALSE, val |-> acc, next |-> 0])
  ELSE IF s[i] = ARGSNULL
    THEN ParseMembers(s, i + 1, [acc EXCEPT !.arguments = NoArgs])
  ELSE IF s[i] = ARGS THEN
    IF i + 1 <= Len(s) /\ s[i + 1] = LB
    THEN Bind(ParseArgs(s, i + 2, EmptyArgs), LAMBDA a :
           IF a.ok THEN ParseMembers(s, a.next, [acc EXCEPT !.arguments = a.val])
           ELSE [ok |-> FALSE, val |-> acc, next |-> 0])
    ELSE [ok |-> FALSE, val |-> acc, next |-> 0]
  ELSE IF s[i] = RESULTS THEN
    Bind(ParseResults(s, i + 1, <<>>), LAMBDA r :
      IF r.ok
      THEN ParseMembers(s, r.next, [acc EXCEPT !.resultsIsArray = TRUE, !.results = r.val])
      ELSE [ok |-> FALSE, val |-> acc, next |-> 0])
  ELSE [ok |-> FALSE, val |-> acc, next |-> 0]

\* JSON.parse of a text that must hold one object and nothing but whitespace around
\* it; ok is false where JSON.parse throws.  A text that is a JSON value other than
\* an object has none of the members read below, and is reported like a throw.
JSONparse(str) ==
  Bind(str, LAMBDA s :
    Bind(SkipWs(s, 1), LAMBDA a :
      IF a > Len(s) \/ s[a] # LB THEN [ok |-> FALSE, val |-> EmptyObj]
      ELSE Bind(ParseMembers(s, a + 1, EmptyObj), LAMBDA r :
             IF r.ok /\ SkipWs(s, r.next) = Len(s) + 1
             THEN [ok |-> TRUE, val |-> r.val]
             ELSE [ok |-> FALSE, val |-> EmptyObj])))

(* --------------------------- response parser -------------------------- *)
\* the parser's result: kind "null" stands for null
NullResponse == [kind |-> "null", tool_name |-> "", arguments |-> NoArgs, content |-> <<>>]

\* parseOneJsonObject as it would be were the type of tool_name not tested
parseOneJsonObject_NameNotTested(str) ==
  Bind(JSONparse(str), LAMBDA p :
    Bind(p.val, LAMBDA obj :
      IF ~p.ok THEN [threw |-> TRUE, out |-> NullResponse]
      ELSE IF obj.type = "tool_request"
        THEN [threw |-> FALSE,
              out |-> [kind |-> "tool_request", tool_name |-> obj.tool_name,
                       arguments |-> IF obj.arguments.isObj THEN obj.arguments ELSE EmptyArgs,
                       content |-> <<>>]]
      ELSE IF obj.type = "final_answer" /\ obj.hasContent
        THEN [threw |-> FALSE,
              out |-> [kind |-> "final_answer", tool_name |-> "", arguments |-> NoArgs,
                       content |-> obj.content]]
      ELSE [threw |-> FALSE, out |-> NullResponse]))

\* parseOneJsonObject; threw is true where it throws
parseOneJsonObject(str) ==
  Bind(JSONparse(str), LAMBDA p :
    Bind(p.val, LAMBDA obj :
      IF ~p.ok THEN [threw |-> TRUE, out |-> NullResponse]
      ELSE IF obj.type = "tool_request" /\ obj.nameIsStr
        THEN [threw |-> FALSE,
              out |-> [kind |-> "tool_request", tool_name |-> obj.tool_name,
                       arguments |-> IF obj.arguments.isObj THEN obj.arguments ELSE EmptyArgs,
                       content |-> <<>>]]
      ELSE IF obj.type = "final_answer" /\ obj.hasContent
        THEN [threw |-> FALSE,
              out |-> [kind |-> "final_answer", tool_name |-> "", arguments |-> NoArgs,
                       content |-> obj.content]]
      ELSE [threw |-> FALSE, out |-> NullResponse]))

RECURSIVE BraceScan(_, _, _, _)
\* the loop of extractFirstJsonObject from index i with the given depth
BraceScan(text, start, i, depth) ==
  IF i > Len(text) THEN [found |-> FALSE, str |-> <<>>]
  ELSE IF text[i] = LB THEN BraceScan(text, start, i + 1, depth + 1)
  ELSE IF text[i] = RB THEN
    IF depth - 1 = 0 THEN [found |-> TRUE, str |-> SubSeq(text, start, i)]
    ELSE BraceScan(text, start, i + 1, depth - 1)
  ELSE BraceScan(text, start, i + 1, depth)

\* extractFirstJsonObject; found is false where it returns null
extractFirstJsonObject(text) ==
  Bind(IndexFrom(text, LB, 1), LAMBDA start :
    IF start = 0 THEN [found |-> FALSE, str |-> <<>>]
    ELSE BraceScan(text, start, start, 0))

\* trimmed.match(/```(?:json)?\s*([\s\S]*?)```/): the first fence that a later fence
\* follows; group 1 starts after the optional tag and the whitespace behind it and
\* ends before the next fence
CodeBlockMatch(trimmed) ==
  Bind(IndexFrom(trimmed, FENCE, 1), LAMBDA open :
    Bind(IF open > 0 /\ open + 1 <= Len(trimmed) /\ trimmed[open + 1] = TAGJSON
         THEN open + 2 ELSE open + 1, LAMBDA afterTag :
      Bind(SkipWs(trimmed, afterTag), LAMBDA from :
        Bind(IF open = 0 THEN 0 ELSE IndexFrom(trimmed, FENCE, from), LAMBDA close :
          IF open = 0 \/ close = 0 THEN [matched |-> FALSE, group1 |-> <<>>]
          ELSE [matched |-> TRUE, group1 |-> SubSeq(trimmed, from, close - 1)]))))

\* jsonStr.split(/\r?\n/)[0]
FirstLineOf(s) ==
  Bind(IndexFrom(s, NL, 1), LAMBDA n :
    IF n = 0 THEN s ELSE SubSeq(s, 1, n - 1))

\* the three attempts of parseToolResponse on jsonStr, in order
ParseAttempts(jsonStr) ==
  Bind(parseOneJsonObject(jsonStr), LAMBDA whole :
    IF ~whole.threw /\ whole.out.kind # "null" THEN whole.out
    ELSE
      Bind(Trim(FirstLineOf(jsonStr)), LAMBDA firstLine :
        Bind(IF Len(firstLine) > 0 /\ firstLine[1] = LB
             THEN parseOneJsonObject(firstLine)
             ELSE [threw |-> FALSE, out |-> NullResponse], LAMBDA line :
          IF ~line.threw /\ line.out.kind # "null" THEN line.out
          ELSE
            Bind(extractFirstJsonObject(jsonStr), LAMBDA firstObj :
              Bind(IF firstObj.found THEN parseOneJsonObject(firstObj.str)
                   ELSE [threw |-> FALSE, out |-> NullResponse], LAMBDA obj :
                IF ~obj.threw /\ obj.out.kind # "null" THEN obj.out
                ELSE NullResponse)))))

parseToolResponse(raw) ==
  Bind(Trim(raw), LAMBDA trimmed :
    Bind(CodeBlockMatch(trimmed), LAMBDA codeBlock :
      Bind(IF codeBlock.matched THEN Trim(codeBlock.group1) ELSE trimmed, LAMBDA jsonStr :
        ParseAttempts(jsonStr))))

(* ------------------------- truthfulness ledger ------------------------ *)
WEB_SEARCH == "web_search"
WriteTools == {"write_file", "obsidian_write_note"}

createLedger(availableToolNames) ==
  [available_tools |-> availableToolNames, invoked_tools |-> <<>>, tool_outputs |-> <<>>]

\* recordInvocation as it would be were the entry pushed a second time
recordInvocation_PushedTwice(ledger, name, args, status, resultSummary, rawOutput, now) ==
  LET entry == [name |-> name, args |-> args, status |-> status,
                started_at |-> now - 50, finished_at |-> now,
                result_summary |-> resultSummary]
  IN [ledger EXCEPT !.invoked_tools = @ \o <<entry, entry>>,
                    !.tool_outputs = @ \o <<rawOutput, rawOutput>>]

\* recordInvocation as it would be were every outcome recorded as a success
recordInvocation_AlwaysSuccess(ledger, name, args, status, resultSummary, rawOutput, now) ==
  [ledger EXCEPT
     !.invoked_tools = Append(@, [name |-> name, args |-> args, status |-> "success",
                                  started_at |-> now - 50, finished_at |-> now,
                                  result_summary |-> resultSummary]),
     !.tool_outputs = Append(@, rawOutput)]

\* recordInvocation; now is the reading of Date.now()
recordInvocation(ledger, name, args, status, resultSummary, rawOutput, now) ==
  [ledger EXCEPT
     !.invoked_tools = Append(@, [name |-> name, args |-> args, status |-> status,
                                  started_at |-> now - 50, finished_at |-> now,
                                  result_summary |-> resultSummary]),
     !.tool_outputs = Append(@, rawOutput)]

\* the test of webSearchSucceeded as it would be were the status not looked at
SomeWebSearchSuccess_AnyStatus(entries, i) ==
  \E k \in i..Len(entries) : entries[k].name = WEB_SEARCH

RECURSIVE SomeWebSearchSuccess(_, _)
\* Array.prototype.some over invoked_tools from index i
SomeWebSearchSuccess(entries, i) ==
  IF i > Len(entries) THEN FALSE
  ELSE IF entries[i].name = WEB_SEARCH /\ entries[i].status = "success" THEN TRUE
  ELSE SomeWebSearchSuccess(entries, i + 1)

webSearchSucceeded(ledger) == SomeWebSearchSuccess(ledger.invoked_tools, 1)

\* parseWebSearchOutput; isNull is true where it returns null
parseWebSearchOutput(raw) ==
  IF Len(raw) = 0 THEN [isNull |-> TRUE, data |-> EmptyObj]
  ELSE
    Bind(Trim(raw), LAMBDA trimmed :
      IF Len(trimmed) = 0 \/ trimmed[1] # LB THEN [isNull |-> TRUE, data |-> EmptyObj]
      ELSE
        Bind(JSONparse(trimmed), LAMBDA p :
          IF ~p.ok THEN [isNull |-> TRUE, data |-> EmptyObj]
          ELSE IF ~p.val.countIsNum \/ ~p.val.resultsIsArray
            THEN [isNull |-> TRUE, data |-> EmptyObj]
          ELSE [isNull |-> FALSE, data |-> p.val]))

\* whether the JSON.parse call of parseWebSearchOutput is reached for raw and throws
JSONparseThrows(raw) ==
  /\ Len(raw) > 0
  /\ Bind(Trim(raw), LAMBDA trimmed :
          Len(trimmed) > 0 /\ trimmed[1] = LB /\ ~JSONparse(trimmed).ok)

\* parseWebSearchOutput as it would be without try and catch
parseWebSearchOutputRaises_NoTry(raw) == JSONparseThrows(raw)

\* whether an exception leaves parseWebSearchOutput(raw)
parseWebSearchOutputRaises(raw) ==
  LET thrown == JSONparseThrows(raw)   \* inside the try block
      caught == thrown                 \* catch { return null }: whatever is thrown
  IN thrown /\ ~caught

\* the characters of a token from its first "http" on ("" when it holds no URL)
UrlPart(tok) ==
  IF tok \in Urls THEN tok
  ELSE IF tok \in UrlAtoms /\ UrlValue(tok) # "" THEN UrlValue(tok) \o QT
  ELSE ""

RECURSIVE RestOfRun(_, _)
\* the characters of line from index i up to the next whitespace
RestOfRun(line, i) ==
  IF i > Len(line) \/ line[i] \in WS THEN ""
  ELSE line[i] \o RestOfRun(line, i + 1)

RECURSIVE FirstUrlMatch(_, _)
\* line.match(/https?:\/\/[^\s]+/) from index i: "" when there is no match
FirstUrlMatch(line, i) ==
  IF i > Len(line) THEN ""
  ELSE IF UrlPart(line[i]) # "" THEN UrlPart(line[i]) \o RestOfRun(line, i + 1)
  ELSE FirstUrlMatch(line, i + 1)

RECURSIVE ScrapeLines(_, _, _)
\* the else branch of getWebSourcesFromLedger: raw.split(/\n/) from index start on,
\* one match per line
ScrapeLines(raw, start, urls) ==
  Bind(IndexFrom(raw, NL, start), LAMBDA n :
    Bind(IF n = 0 THEN SubSeq(raw, start, Len(raw)) ELSE SubSeq(raw, start, n - 1), LAMBDA line :
      Bind(FirstUrlMatch(line, 1), LAMBDA m :
        Bind(IF m # "" THEN Append(urls, m) ELSE urls, LAMBDA next :
          IF n = 0 THEN next ELSE ScrapeLines(raw, n + 1, next)))))

RECURSIVE PushTruthy(_, _, _)
\* for (const r of parsed.results) if (r?.url) urls.push(r.url), from result i on
PushTruthy(results, i, urls) ==
  IF i > Len(results) THEN urls
  ELSE Bind(IF results[i] # "" THEN Append(urls, results[i]) ELSE urls, LAMBDA next :
         PushTruthy(results, i + 1, next))

RECURSIVE Dedupe(_, _, _)
\* [...new Set(urls)]: first occurrences, in order, from url i on
Dedupe(urls, i, seen) ==
  IF i > Len(urls) THEN seen
  ELSE Bind(IF \E k \in 1..Len(seen) : seen[k] = urls[i] THEN seen
            ELSE Append(seen, urls[i]), LAMBDA next :
         Dedupe(urls, i + 1, next))

MaxWebSources == 20

RECURSIVE CollectWebSources_StatusNotTested(_, _, _)
\* the loop as it would be were the status of an entry not tested
CollectWebSources_StatusNotTested(ledger, i, urls) ==
  IF i > Len(ledger.invoked_tools) THEN urls
  ELSE IF ledger.invoked_tools[i].name # WEB_SEARCH
    THEN CollectWebSources_StatusNotTested(ledger, i + 1, urls)
  ELSE
    Bind(IF i <= Len(ledger.tool_outputs) THEN ledger.tool_outputs[i] ELSE <<>>, LAMBDA raw :
      Bind(parseWebSearchOutput(raw), LAMBDA parsed :
        Bind(IF ~parsed.isNull /\ Len(parsed.data.results) > 0
             THEN PushTruthy(parsed.data.results, 1, urls)
             ELSE ScrapeLines(raw, 1, urls), LAMBDA next :
          CollectWebSources_StatusNotTested(ledger, i + 1, next))))

RECURSIVE CollectWebSources(_, _, _)
\* the loop of getWebSourcesFromLedger from entry i
CollectWebSources(ledger, i, urls) ==
  IF i > Len(ledger.invoked_tools) THEN urls
  ELSE IF ledger.invoked_tools[i].name # WEB_SEARCH \/ ledger.invoked_tools[i].status # "success"
    THEN CollectWebSources(ledger, i + 1, urls)
  ELSE
    Bind(IF i <= Len(ledger.tool_outputs) THEN ledger.tool_outputs[i] ELSE <<>>, LAMBDA raw :
      Bind(parseWebSearchOutput(raw), LAMBDA parsed :
        Bind(IF ~parsed.isNull /\ Len(parsed.data.results) > 0
             THEN PushTruthy(parsed.data.results, 1, urls)
             ELSE ScrapeLines(raw, 1, urls), LAMBDA next :
          CollectWebSources(ledger, i + 1, next))))

getWebSourcesFromLedger(ledger) ==
  Bind(CollectWebSources(ledger, 1, <<>>), LAMBDA urls :
    Bind(Dedupe(urls, 1, <<>>), LAMBDA all :
      IF Len(all) > MaxWebSources THEN SubSeq(all, 1, MaxWebSources) ELSE all))

NoWebResult == [isNull |-> TRUE, result_count |-> 0, provider |-> "", urls |-> <<>>]

RECURSIVE LastWebSearchFrom(_, _)
\* the loop of getLastWebSearchResult from entry i downwards
LastWebSearchFrom(ledger, i) ==
  IF i < 1 THEN NoWebResult
  ELSE IF ledger.invoked_tools[i].name # WEB_SEARCH \/ ledger.invoked_tools[i].status # "success"
    THEN LastWebSearchFrom(ledger, i - 1)
  ELSE
    Bind(IF i <= Len(ledger.tool_outputs) THEN ledger.tool_outputs[i] ELSE <<>>, LAMBDA raw :
      Bind(parseWebSearchOutput(raw), LAMBDA parsed :
        IF ~parsed.isNull
        THEN [isNull |-> FALSE,
              result_count |-> parsed.data.result_count,
              provider |-> IF parsed.data.hasProvider THEN parsed.data.provider ELSE "unknown",
              urls |-> PushTruthy(parsed.data.results, 1, <<>>)]
        ELSE LastWebSearchFrom(ledger, i - 1)))

getLastWebSearchResult(ledger) == LastWebSearchFrom(ledger, Len(ledger.invoked_tools))

\* whether an exception leaves the ledger operation fn called on ledger: the
\* operations call nothing that throws but parseWebSearchOutput, on the outputs of
\* the successful web_search entries their loops come to
Raises(fn, ledger) ==
  LET entries == ledger.invoked_tools
      searched(i) == entries[i].name = WEB_SEARCH /\ entries[i].status = "success"
      raw(i) == IF i <= Len(ledger.tool_outputs) THEN ledger.tool_outputs[i] ELSE <<>>
      visited(i) ==
        /\ searched(i)
        /\ fn = "getLastWebSearchResult"
             => \A j \in (i + 1)..Len(entries) :
                  searched(j) => parseWebSearchOutput(raw(j)).isNull
  IN /\ fn # "webSearchSucceeded"
     /\ \E i \in 1..Len(entries) : visited(i) /\ parseWebSearchOutputRaises(raw(i))

(* ---------------------- fake web-search claim check ------------------- *)
\* the corrective message, cut into tokens where its words can meet a pattern
CM1 == "I did not perform a web search. [...] If you need up-to-date information"
CM2 == "please enable the \"Web search\" tool [...] I will not claim to have"
CM3 == "when I have not."
CORRECTED_MESSAGE_NO_WEB_SEARCH ==
  <<CM1, SP, "from", SP, "the", SP, "internet", ",", SP, CM2, SP,
    "searched", SP, "the", SP, "web", SP, CM3>>

\* tokens whose last, respectively first, character is a word character (\w)
EndsWordChar == (Words \ {".", ","}) \cup Urls \cup {TAGJSON, ESCNL, CM1, CM2}
                  \cup {"\"result_count\":0", "\"result_count\":1", "\"result_count\":2",
                        "\"ok\":true", "\"results\":null", "\"tool_name\":5"}
StartsWordChar == (Words \ {".", ","}) \cup Urls \cup {TAGJSON, CM1, CM2, CM3}

\* the /i flag: a word token in lower case
Lower(tok) ==
  CASE tok \in {"After", "AFTER"} -> "after"
    [] tok = "Searching" -> "searching"
    [] tok = "I" -> "i"
    [] tok = "According" -> "according"
    [] OTHER -> tok

\* \s+ in a pattern
SPLUS == "\\s+"

\* FAKE_WEB_SEARCH_PATTERNS with the alternations written out; every pattern starts
\* and ends with \b.  The optional prefixes (?:a\s+)? and (?:i\s+)? of the last two
\* patterns are left out: a text matching with the prefix matches without it.
FAKE_WEB_SEARCH_PATTERNS ==
  { <<"after", SPLUS, "searching">>,
    <<"i", SPLUS, "looked", SPLUS, "it", SPLUS, "up">>,
    <<"according", SPLUS, "to", SPLUS, "my", SPLUS, "web", SPLUS, "search">>,
    <<"i", SPLUS, "found", SPLUS, "online">> }
  \cup { <<"my", SPLUS, "search", SPLUS, w>> : w \in {"result", "results", "found"} }
  \cup { <<"search", SPLUS, r, SPLUS, v>> : r \in {"result", "results"}, v \in {"show", "indicate"} }
  \cup { <<"from", SPLUS, n>> : n \in {"web", "internet"} }
  \cup { <<"from", SPLUS, "the", SPLUS, n>> : n \in {"web", "internet"} }
  \cup { <<"according", SP, "to", SPLUS, n>> : n \in {"web", "internet"} }
  \cup { <<"according", SP, "to", SPLUS, "the", SPLUS, n>> : n \in {"web", "internet"} }
  \cup { <<"quick", SPLUS, "search", SPLUS, v>> : v \in {"shows", "reveals"} }
  \cup { <<"searched", SPLUS, n>> : n \in {"web", "internet"} }
  \cup { <<"searched", SPLUS, "the", SPLUS, n>> : n \in {"web", "internet"} }

RECURSIVE MatchFrom(_, _, _, _)
\* whether items k.. of pattern pat match text from index i on, with \b after the last
MatchFrom(text, i, pat, k) ==
  IF k > Len(pat) THEN i > Len(text) \/ text[i] \notin StartsWordChar
  ELSE IF i > Len(text) THEN FALSE
  ELSE IF pat[k] = SPLUS
    THEN text[i] \in WS /\ Bind(SkipWs(text, i), LAMBDA j : MatchFrom(text, j, pat, k + 1))
  ELSE Lower(text[i]) = pat[k] /\ MatchFrom(text, i + 1, pat, k + 1)

\* re.test as it would be were the patterns written without their leading \b
RegexTest_NoLeadingBoundary(pat, text) ==
  \E i \in 1..Len(text) : MatchFrom(text, i, pat, 1)

\* re.test(normalized)
RegexTest(pat, text) ==
  \E i \in 1..Len(text) :
    /\ i = 1 \/ text[i - 1] \notin EndsWordChar
    /\ MatchFrom(text, i, pat, 1)

hasFakeWebSearchClaim(text) ==
  IF Len(text) = 0 THEN FALSE
  ELSE Bind(Trim(text), LAMBDA normalized :
         IF Len(normalized) = 0 THEN FALSE
         ELSE \E re \in FAKE_WEB_SEARCH_PATTERNS : RegexTest(re, normalized))

(* -------------------------- provenance footer ------------------------- *)
\* one token per URL, from the URL strings
AsTokens(strs) == [k \in 1..Len(strs) |-> <<strs[k]>>]

\* the const toolsUsed of buildProvenanceFooter
toolsUsed(ledger) ==
  IF Len(ledger.invoked_tools) > 0
  THEN Join([k \in 1..Len(ledger.invoked_tools) |-> <<ledger.invoked_tools[k].name>>],
            <<", ">>)
  ELSE <<"none">>

\* webLine as it would be were the marker kept for ledgers with no invocation
webLine_MarkerOnlyForEmptyLedger(ledger, webSources) ==
  IF Len(webSources) > 0 THEN Join(AsTokens(webSources), <<NL, SP, SP>>)
  ELSE IF Len(ledger.invoked_tools) = 0 THEN <<"None (offline)">>
  ELSE <<>>

\* the const webLine of buildProvenanceFooter
webLine(ledger, webSources) ==
  IF Len(webSources) > 0 THEN Join(AsTokens(webSources), <<NL, SP, SP>>)
  ELSE <<"None (offline)">>

\* buildProvenanceFooter; now is the reading of the clock behind new Date()
buildProvenanceFooter(ledger, now) ==
  Bind(getLastWebSearchResult(ledger), LAMBDA lastWeb :
  Bind(IF webSearchSucceeded(ledger) THEN getWebSourcesFromLedger(ledger) ELSE <<>>,
       LAMBDA webSources :
  LET timestamp == "ts:" \o ToString(now)
      providerLine == IF ~lastWeb.isNull /\ lastWeb.provider # ""
                      THEN <<"- Web search provider: ", lastWeb.provider, NL>>
                      ELSE <<>>
  IN Join(<< <<>>,
             <<"---">>,
             <<"Provenance">>,
             <<"- Generated at: ", timestamp>>,
             <<"- Tools used: ">> \o toolsUsed(ledger),
             providerLine,
             <<"- Source URLs: ">> \o (IF Len(webSources) > 0
                                       THEN <<NL, SP, SP>> \o webLine(ledger, webSources)
                                       ELSE webLine(ledger, webSources)),
             <<"- Notes: This assistant cannot browse the internet unless the web_search tool is enabled and was used.">>,
             <<"---">> >>, <<NL>>)))

(* --------------------------- bounds and inputs ------------------------ *)
\* runStreamWithMessages calls (rounds) in one run, over all turns
MaxRounds == 3

FA == "\"type\":\"final_answer\""
TR == "\"type\":\"tool_request\""

\* what the model may stream in one round: a sequence of deltas (texts)
OutClaimAnswer == << <<LB, FA, CQ, "After", SP>>, <<"searching", ",", SP, "Paris", QT, RB>> >>
OutPlainAnswer == << <<LB, FA, CQ, "hello", ESCNL, "Paris", QT, RB>> >>
OutClaimProse == << <<"After", SP, "searching", ",", SP, "the", SP, "capital", SP, "is", SP, "Paris", ".">> >>
OutWriteClaim ==
  << <<LB, TR, "\"tool_name\":\"write_file\"", ARGS, LB, "\"path\":\"a.txt\"",
       CQ, "I", SP, "looked", SP, "it", SP, "up", ".", QT, RB, RB>> >>
OutObsidianNote ==
  << <<LB, TR, "\"tool_name\":\"obsidian_write_note\"", ARGS, LB, "\"path\":\"a.txt\"",
       CQ, "hello", QT, RB, RB>> >>
OutWebSearch == << <<LB, TR, "\"tool_name\":\"web_search\"", ARGS, LB, "\"query\":\"x\"", RB, RB>> >>
OutUnknownTool == << <<LB, TR, "\"tool_name\":\"run_command\"", RB>> >>
OutEmpty == << >>
ModelOutputs == {OutClaimAnswer, OutPlainAnswer, OutClaimProse, OutWriteClaim, OutObsidianNote,
                 OutWebSearch, OutUnknownTool, OutEmpty}

\* what getMcpToolDefinitions(true) may return: the names of the enabled tools
ToolDefSets == { <<>>, <<"write_file">>, <<"web_search", "write_file", "obsidian_write_note">> }

\* what execute_mcp_tool may return for a tool
SearchOneResult ==
  <<LB, "\"ok\":true", "\"provider\":\"duckduckgo\"", "\"result_count\":1",
    RESULTS, LB, "\"url\":\"https://example.com/1\"", RB, RBRACK, RB>>
SearchNoResult ==
  <<LB, "\"ok\":true", "\"provider\":\"duckduckgo\"", "\"result_count\":0", RESULTS, RBRACK, RB>>
ToolResults(name) ==
  IF name = WEB_SEARCH
  THEN { [ok |-> TRUE, content |-> SearchOneResult, error |-> <<>>],
         [ok |-> TRUE, content |-> SearchNoResult, error |-> <<>>],
         [ok |-> FALSE, content |-> <<>>, error |-> <<"timeout">>] }
  ELSE { [ok |-> TRUE, content |-> <<"Wrote">>, error |-> <<>>],
         [ok |-> FALSE, content |-> <<>>, error |-> <<"denied">>] }

\* no McpToolResultDto yet
NoResult == [ok |-> FALSE, content |-> <<>>, error |-> <<>>]

UserText == <<"hello">>

(* ------------------------------- state -------------------------------- *)
VARIABLES
  rounds,           \* the runStreamWithMessages calls made so far, in call order
  ledgers,          \* ledgers[t]: the ToolLedger object of turn t
  sends,            \* the sendMessage / regenerateLastResponse calls made so far
  streaming,        \* the React state `streaming`
  messages,         \* the React state `messages`
  abortRef,         \* abortRef.current
  streamBufferRef,  \* streamBufferRef.current
  doneEvent,        \* the ollama-chat-done event being delivered to its listeners
  store,            \* the api.addMessage calls made so far, in call order
  dispatches,       \* the api.executeMcpTool calls made so far, in call order
  now,              \* the clock behind Date.now() and new Date()
  direct            \* a direct call of an exported function, made outside any turn

vars == <<rounds, ledgers, sends, streaming, messages, abortRef, streamBufferRef,
          doneEvent, store, dispatches, now, direct>>

Msg(role, content) == [role |-> role, content |-> content]

NoEvent == [canceled |-> FALSE, queue |-> <<>>]

\* what loadConversation may have put into `messages`: a new chat, or a stored one
LoadedConversations ==
  { <<>>, <<Msg("user", UserText), Msg("assistant", <<"hello", SP, "Paris">>)>> }

\* no direct call
NoCall == [fn |-> "", returned |-> FALSE]

Init ==
  /\ direct = NoCall
  /\ rounds = <<>>
  /\ ledgers = <<>>
  /\ sends = <<>>
  /\ streaming = FALSE
  /\ messages \in LoadedConversations
  /\ abortRef = FALSE
  /\ streamBufferRef = <<>>
  /\ doneEvent = NoEvent
  /\ store = <<>>
  /\ dispatches = <<>>
  /\ now = 0

\* no listener is in the middle of being called
Idle == doneEvent.queue = <<>>

(* ---------------------------- prompt building ------------------------- *)
MAX_MESSAGES_IN_PROMPT == 50

\* buildToolBlock: the templated text is one token, followed by the tool names
buildToolBlock(toolDefs) ==
  IF Len(toolDefs) = 0 THEN <<>> ELSE <<"<tool block>">> \o toolDefs

\* buildOllamaMessagesFromList: the system message and the last
\* MAX_MESSAGES_IN_PROMPT messages of the list
buildOllamaMessagesFromList(list, toolBlock) ==
  LET bounded == IF Len(list) > MAX_MESSAGES_IN_PROMPT
                 THEN SubSeq(list, Len(list) - MAX_MESSAGES_IN_PROMPT + 1, Len(list))
                 ELSE list
  IN <<Msg("system", <<"<system prompt>">> \o toolBlock)>> \o bounded

(* ------------------------- runStreamWithMessages ---------------------- *)
\* the call runStreamWithMessages(cid, messagesForPrompt, options), up to its first
\* await; the ledger of the call is the one of its turn
NewRound(turn, messagesForPrompt, optToolsEnabled, toolDefs) ==
  [turn |-> turn,
   toolsEnabled |-> optToolsEnabled /\ Len(toolDefs) > 0,
   toolDefs |-> toolDefs,
   messagesForPrompt |-> messagesForPrompt,
   pc |-> "settings",
   lDelta |-> FALSE, lDone |-> FALSE,
   stream |-> "none", left |-> <<>>, cancel |-> FALSE, stopInDispatch |-> FALSE,
   handled |-> FALSE, branch |-> "", threw |-> FALSE,
   full |-> <<>>, tool |-> "", args |-> NoArgs, result |-> NoResult, sent |-> <<>>]

allowedToolNames(rd) == {rd.toolDefs[k] : k \in 1..Len(rd.toolDefs)}

\* after `await api.getSettings()`: the flags and refs are reset for the round
RoundStart(r) ==
  /\ Idle
  /\ rounds[r].pc = "settings"
  /\ streaming' = TRUE
  /\ streamBufferRef' = <<>>
  /\ abortRef' = FALSE
  /\ rounds' = [rounds EXCEPT ![r].pc = "listenDelta"]
  /\ UNCHANGED <<direct, ledgers, sends, messages, doneEvent, store, dispatches, now>>

\* `await listen("ollama-chat-delta", ...)` has registered the listener
ListenDelta(r) ==
  /\ Idle
  /\ rounds[r].pc = "listenDelta"
  /\ rounds' = [rounds EXCEPT ![r].pc = "listenDone", ![r].lDelta = TRUE]
  /\ UNCHANGED <<direct, ledgers, sends, streaming, messages, abortRef, streamBufferRef,
                 doneEvent, store, dispatches, now>>

\* `await listen("ollama-chat-done", ...)` has registered the listener, and the
\* request api.ollamaChatStream is made; out is what the model will stream
ListenDoneAndRequest(r, out) ==
  /\ Idle
  /\ rounds[r].pc = "listenDone"
  /\ rounds' = [rounds EXCEPT
       ![r].pc = "waiting", ![r].lDone = TRUE,
       ![r].stream = "active", ![r].left = out,
       ![r].sent = buildOllamaMessagesFromList(
                     rounds[r].messagesForPrompt,
                     IF rounds[r].toolsEnabled THEN buildToolBlock(rounds[r].toolDefs) ELSE <<>>)]
  /\ UNCHANGED <<direct, ledgers, sends, streaming, messages, abortRef, streamBufferRef,
                 doneEvent, store, dispatches, now>>

RECURSIVE DeliverDelta_AbortNotSampled(_, _, _, _)
\* DeliverDelta as it would be were the abort flag not sampled by the listener
DeliverDelta_AbortNotSampled(rs, k, buffer, payload) ==
  IF k > Len(rs) THEN buffer
  ELSE DeliverDelta_AbortNotSampled(rs, k + 1,
                    IF rs[k].lDelta THEN buffer \o payload ELSE buffer,
                    payload)

RECURSIVE DeliverDelta(_, _, _, _)
\* the ollama-chat-delta listeners of rounds k.. are called with payload, in turn
DeliverDelta(rs, k, buffer, payload) ==
  IF k > Len(rs) THEN buffer
  ELSE DeliverDelta(rs, k + 1,
                    IF rs[k].lDelta /\ ~abortRef THEN buffer \o payload ELSE buffer,
                    payload)

\* the backend emits the next ollama-chat-delta of the stream of round r
Delta(r) ==
  /\ Idle
  /\ rounds[r].stream = "active"
  /\ Len(rounds[r].left) > 0
  /\ streamBufferRef' = DeliverDelta(rounds, 1, streamBufferRef, Head(rounds[r].left))
  /\ rounds' = [rounds EXCEPT ![r].left = Tail(@)]
  /\ UNCHANGED <<direct, ledgers, sends, streaming, messages, abortRef, doneEvent, store,
                 dispatches, now>>

\* stopStreaming: the Stop button and the Esc key are live while `streaming` is set;
\* cancel_chat_generation reaches the streams that are running.  With noted, the
\* history field stopInDispatch of a round records that the call came while the
\* round awaited api.executeMcpTool.
stopStreaming(noted) ==
  /\ Idle
  /\ streaming
  /\ abortRef' = TRUE
  /\ rounds' = [k \in 1..Len(rounds) |->
                  IF rounds[k].stream = "active" THEN [rounds[k] EXCEPT !.cancel = TRUE]
                  ELSE IF noted /\ rounds[k].pc = "dispatching"
                    THEN [rounds[k] EXCEPT !.stopInDispatch = TRUE]
                  ELSE rounds[k]]
  /\ UNCHANGED <<direct, ledgers, sends, streaming, messages, streamBufferRef, doneEvent, store,
                 dispatches, now>>

RECURSIVE DoneListeners(_, _)
\* the rounds whose ollama-chat-done listener is registered, in registration order
DoneListeners(rs, k) ==
  IF k > Len(rs) THEN <<>>
  ELSE (IF rs[k].lDone THEN <<k>> ELSE <<>>) \o DoneListeners(rs, k + 1)

\* the backend emits ollama-chat-done for the stream of round r: after the last
\* delta, or with canceled = true once cancellation was requested
DoneEvent(r, canceled) ==
  /\ Idle
  /\ rounds[r].stream = "active"
  /\ \/ ~canceled /\ Len(rounds[r].left) = 0
     \/ canceled /\ rounds[r].cancel
  /\ doneEvent' = [canceled |-> canceled, queue |-> DoneListeners(rounds, 1)]
  /\ rounds' = [rounds EXCEPT ![r].stream = "ended", ![r].left = <<>>]
  /\ UNCHANGED <<direct, ledgers, sends, streaming, messages, abortRef, streamBufferRef, store,
                 dispatches, now>>

(* --------------------- the ollama-chat-done handler ------------------- *)
DISCLAIMER_NO_WEB_SEARCH ==
  <<"Note: Web search was not performed. The following is from the assistant's general knowledge or other tools.",
    NL, NL>>
COULD_NOT_VERIFY == <<"Could not verify via web_search (no explicit officeholder found).">>

\* contentToShow as it would be were the ledger not consulted: every final answer
\* with a claim is replaced
contentToShow_LedgerNotConsulted(toolsEnabled, allowed, ledger, full) ==
  IF toolsEnabled /\ allowed # {}
  THEN Bind(parseToolResponse(full), LAMBDA parsed :
         IF parsed.kind = "final_answer"
         THEN IF hasFakeWebSearchClaim(parsed.content)
              THEN CORRECTED_MESSAGE_NO_WEB_SEARCH
              ELSE parsed.content
         ELSE full)
  ELSE full

\* the value of contentToShow when the handler reaches the final commit without
\* having entered the tool_request branch
contentToShow(toolsEnabled, allowed, ledger, full) ==
  IF toolsEnabled /\ allowed # {}
  THEN Bind(parseToolResponse(full), LAMBDA parsed :
         IF parsed.kind = "final_answer"
         THEN IF hasFakeWebSearchClaim(parsed.content) /\ ~webSearchSucceeded(ledger)
              THEN CORRECTED_MESSAGE_NO_WEB_SEARCH
              ELSE parsed.content
         ELSE full)
  ELSE full

\* entersToolRequest as it would be were the name not looked up in allowedToolNames
entersToolRequest_AnyName(toolsEnabled, allowed, full) ==
  /\ toolsEnabled /\ allowed # {}
  /\ Bind(parseToolResponse(full), LAMBDA parsed :
       /\ parsed.kind # "final_answer"
       /\ parsed.kind = "tool_request")

\* whether the handler enters the tool_request branch
entersToolRequest(toolsEnabled, allowed, full) ==
  /\ toolsEnabled /\ allowed # {}
  /\ Bind(parseToolResponse(full), LAMBDA parsed :
       /\ parsed.kind # "final_answer"
       /\ parsed.kind = "tool_request"
       /\ parsed.tool_name \in allowed)

\* argsToUse as it would be were the footer left off a body that was not rewritten
argsToUse_FooterOnlyOnRewrite(parsed, ledger, clock) ==
  LET isWriteTool == parsed.tool_name \in WriteTools
      body0 == IF parsed.arguments.hasContent THEN parsed.arguments.content ELSE <<>>
  IN IF isWriteTool
     THEN
       Bind(getLastWebSearchResult(ledger), LAMBDA lastWeb :
         Bind(~lastWeb.isNull /\ (lastWeb.result_count = 0 \/ Len(lastWeb.urls) = 0),
              LAMBDA webSearchHadNoResults :
           IF hasFakeWebSearchClaim(body0) /\ ~webSearchSucceeded(ledger)
           THEN [parsed.arguments EXCEPT
                   !.hasContent = TRUE,
                   !.content = DISCLAIMER_NO_WEB_SEARCH \o body0
                                 \o buildProvenanceFooter(ledger, clock)]
           ELSE IF webSearchSucceeded(ledger) /\ webSearchHadNoResults
             THEN [parsed.arguments EXCEPT
                     !.hasContent = TRUE,
                     !.content = COULD_NOT_VERIFY \o buildProvenanceFooter(ledger, clock)]
           ELSE [parsed.arguments EXCEPT !.hasContent = TRUE, !.content = body0]))
     ELSE parsed.arguments

\* argsToUse as it would be were the disclaimer put after the body
argsToUse_DisclaimerAfterBody(parsed, ledger, clock) ==
  LET isWriteTool == parsed.tool_name \in WriteTools
      body0 == IF parsed.arguments.hasContent THEN parsed.arguments.content ELSE <<>>
  IN IF isWriteTool
     THEN
       Bind(getLastWebSearchResult(ledger), LAMBDA lastWeb :
         Bind(~lastWeb.isNull /\ (lastWeb.result_count = 0 \/ Len(lastWeb.urls) = 0),
              LAMBDA webSearchHadNoResults :
           Bind(IF hasFakeWebSearchClaim(body0) /\ ~webSearchSucceeded(ledger)
                THEN body0 \o DISCLAIMER_NO_WEB_SEARCH
                ELSE IF webSearchSucceeded(ledger) /\ webSearchHadNoResults
                  THEN COULD_NOT_VERIFY
                ELSE body0, LAMBDA body :
             [parsed.arguments EXCEPT !.hasContent = TRUE,
                                      !.content = body \o buildProvenanceFooter(ledger, clock)])))
     ELSE parsed.arguments

\* argsToUse: the arguments handed to api.executeMcpTool
argsToUse(parsed, ledger, clock) ==
  LET isWriteTool == parsed.tool_name \in WriteTools
      body0 == IF parsed.arguments.hasContent THEN parsed.arguments.content ELSE <<>>
  IN IF isWriteTool
     THEN
       Bind(getLastWebSearchResult(ledger), LAMBDA lastWeb :
         Bind(~lastWeb.isNull /\ (lastWeb.result_count = 0 \/ Len(lastWeb.urls) = 0),
              LAMBDA webSearchHadNoResults :
           Bind(IF hasFakeWebSearchClaim(body0) /\ ~webSearchSucceeded(ledger)
                THEN DISCLAIMER_NO_WEB_SEARCH \o body0
                ELSE IF webSearchSucceeded(ledger) /\ webSearchHadNoResults
                  THEN COULD_NOT_VERIFY
                ELSE body0, LAMBDA body :
             [parsed.arguments EXCEPT !.hasContent = TRUE,
                                      !.content = body \o buildProvenanceFooter(ledger, clock)])))
     ELSE parsed.arguments

\* api.addMessage(cid, role, content) by round `by` at code place `via`; turn and
\* ledgerLen note the caller's turn and the length of its ledger at the call, and
\* during the number of turns started by then
Stored(role, content, by, via) ==
  [role |-> role, content |-> content, by |-> by, via |-> via,
   turn |-> IF by = 0 THEN 0 ELSE rounds[by].turn,
   ledgerLen |-> IF by = 0 THEN 0 ELSE Len(ledgers[rounds[by].turn].invoked_tools),
   during |-> Len(ledgers)]

\* the handler of round r is called with the event, and runs to its first await or
\* to its return
HandleDone(r) ==
  LET rd == rounds[r]
      canceled == doneEvent.canceled
      full == streamBufferRef
      ledger == ledgers[rd.turn]
      allowed == allowedToolNames(rd)
      unlistened == [rd EXCEPT !.lDelta = FALSE, !.lDone = FALSE, !.handled = TRUE,
                               !.full = full]
  IN /\ doneEvent.queue # <<>>
     /\ r = Head(doneEvent.queue)
     /\ doneEvent' = [doneEvent EXCEPT !.queue = Tail(@)]
     /\ now' = now + 1
     /\ UNCHANGED <<direct, ledgers, sends, abortRef, streamBufferRef>>
     /\ IF abortRef \/ canceled THEN
          /\ IF ~canceled /\ full # <<>>
             THEN /\ store' = Append(store, Stored("assistant", full, r, "abort"))
                  /\ messages' = Append(messages, Msg("assistant", full))
             ELSE UNCHANGED <<store, messages>>
          /\ streaming' = FALSE
          /\ rounds' = [rounds EXCEPT ![r] = [unlistened EXCEPT !.pc = "done",
                                                                !.branch = "abort"]]
          /\ UNCHANGED dispatches
        ELSE IF full = <<>> THEN
          /\ streaming' = FALSE
          /\ rounds' = [rounds EXCEPT ![r] = [unlistened EXCEPT !.pc = "done",
                                                                !.branch = "empty"]]
          /\ UNCHANGED <<store, messages, dispatches>>
        ELSE IF entersToolRequest(rd.toolsEnabled, allowed, full) THEN
          \E parsed \in {parseToolResponse(full)} :
            \E args \in {argsToUse(parsed, ledger, now)} :
              /\ dispatches' = Append(dispatches,
                   [by |-> r, turn |-> rd.turn, name |-> parsed.tool_name, args |-> args,
                    given |-> parsed.arguments, at |-> now,
                    ledgerLen |-> Len(ledger.invoked_tools), during |-> Len(ledgers)])
              /\ rounds' = [rounds EXCEPT ![r] = [unlistened EXCEPT
                              !.pc = "dispatching", !.branch = "tool_request",
                              !.tool = parsed.tool_name, !.args = args]]
              /\ UNCHANGED <<store, messages, streaming>>
        ELSE
          \E content \in {contentToShow(rd.toolsEnabled, allowed, ledger, full)} :
            /\ store' = Append(store, Stored("assistant", content, r, "final"))
            /\ messages' = Append(messages, Msg("assistant", content))
            /\ streaming' = FALSE
            /\ rounds' = [rounds EXCEPT ![r] = [unlistened EXCEPT !.pc = "done",
                                                                  !.branch = "final"]]
            /\ UNCHANGED dispatches

SummaryLimit == 200

\* api.executeMcpTool returns res: the outcome is recorded, the two tool-round
\* messages are saved and shown, and the next round is called
DispatchReturn(r, res) ==
  LET rd == rounds[r]
      ledger == ledgers[rd.turn]
      toolResultText == IF res.ok THEN res.content ELSE <<"Error: ">> \o res.error
      summary == IF res.ok
                 THEN (IF Len(res.content) > SummaryLimit
                       THEN SubSeq(res.content, 1, SummaryLimit) \o <<"...">>
                       ELSE res.content)
                 ELSE res.error
      assistantMsg == Msg("assistant", rd.full)
      toolUserMsg == Msg("user", <<"[Tool result from ", rd.tool, "]", NL>> \o toolResultText)
  IN /\ Idle
     /\ rd.pc = "dispatching"
     /\ Len(rounds) < MaxRounds
     /\ res \in ToolResults(rd.tool)
     /\ ledgers' = [ledgers EXCEPT ![rd.turn] =
          recordInvocation(ledger, rd.tool, rd.args, IF res.ok THEN "success" ELSE "error",
                           summary, res.content, now)]
     /\ store' = store \o <<Stored("assistant", rd.full, r, "toolAssistant"),
                            Stored("user", toolUserMsg.content, r, "toolUser")>>
     /\ messages' = messages \o <<assistantMsg, toolUserMsg>>
     /\ rounds' = Append([rounds EXCEPT ![r].pc = "done", ![r].result = res],
                         NewRound(rd.turn, rd.messagesForPrompt \o <<assistantMsg, toolUserMsg>>,
                                  TRUE, rd.toolDefs))
     /\ now' = now + 1
     /\ UNCHANGED <<direct, sends, streaming, abortRef, streamBufferRef, doneEvent, dispatches>>

\* the catch block as it would be were the request made again after a rejection
DispatchThrow_NextRound(r) ==
  LET rd == rounds[r]
  IN /\ Idle
     /\ rd.pc = "dispatching"
     /\ Len(rounds) < MaxRounds
     /\ rounds' = Append([rounds EXCEPT ![r].pc = "done", ![r].threw = TRUE],
                         NewRound(rd.turn, rd.messagesForPrompt, TRUE, rd.toolDefs))
     /\ UNCHANGED <<direct, ledgers, sends, streaming, messages, abortRef, streamBufferRef,
                    doneEvent, store, dispatches, now>>

\* api.executeMcpTool rejects: the catch block reports the error and control falls
\* through to the final commit, where contentToShow still holds the raw buffer
DispatchThrow(r) ==
  LET rd == rounds[r]
  IN /\ Idle
     /\ rd.pc = "dispatching"
     /\ store' = Append(store, Stored("assistant", rd.full, r, "final"))
     /\ messages' = Append(messages, Msg("assistant", rd.full))
     /\ streaming' = FALSE
     /\ rounds' = [rounds EXCEPT ![r].pc = "done", ![r].threw = TRUE]
     /\ UNCHANGED <<direct, ledgers, sends, abortRef, streamBufferRef, doneEvent, dispatches, now>>

\* api.ollamaChatStream rejects: no completion event comes for this stream; the
\* catch block saves what is in the buffer and clears the streaming flag.  The
\* listeners of the round stay registered.
StreamError(r) ==
  LET full == streamBufferRef
  IN /\ Idle
     /\ rounds[r].stream = "active"
     /\ rounds' = [rounds EXCEPT ![r].stream = "ended", ![r].left = <<>>]
     /\ IF full # <<>>
        THEN /\ store' = Append(store, Stored("assistant", full, r, "streamError"))
             /\ messages' = Append(messages, Msg("assistant", full))
        ELSE UNCHANGED <<store, messages>>
     /\ streaming' = FALSE
     /\ UNCHANGED <<direct, ledgers, sends, abortRef, streamBufferRef, doneEvent, dispatches, now>>

(* --------------------- sendMessage and regenerate --------------------- *)
\* sendMessage passes its guard `!text || streaming` and awaits the health check;
\* `messages` is the value the call closed over.  maxCalls bounds the calls of a run.
sendMessage(maxCalls) ==
  /\ Idle
  /\ ~streaming
  /\ Len(sends) < maxCalls
  /\ sends' = Append(sends, [kind |-> "send", msgs |-> messages, pc |-> "awaiting"])
  /\ UNCHANGED <<direct, rounds, ledgers, streaming, messages, abortRef, streamBufferRef,
                 doneEvent, store, dispatches, now>>

\* regenerateLastResponse passes its guards and awaits the health check
regenerateLastResponse(maxCalls) ==
  /\ Idle
  /\ ~streaming
  /\ Len(messages) >= 2
  /\ messages[Len(messages)].role = "assistant"
  /\ Len(sends) < maxCalls
  /\ sends' = Append(sends, [kind |-> "regenerate", msgs |-> messages, pc |-> "awaiting"])
  /\ UNCHANGED <<direct, rounds, ledgers, streaming, messages, abortRef, streamBufferRef,
                 doneEvent, store, dispatches, now>>

\* the health check of call k says that Ollama is not running: the call returns
SendNotConnected(k) ==
  /\ Idle
  /\ sends[k].pc = "awaiting"
  /\ sends' = [sends EXCEPT ![k].pc = "done"]
  /\ UNCHANGED <<direct, rounds, ledgers, streaming, messages, abortRef, streamBufferRef,
                 doneEvent, store, dispatches, now>>

\* the rest of call k: the user message is saved and shown (sendMessage) or the last
\* message is dropped from view (regenerateLastResponse), the tool definitions are
\* fetched, and runStreamWithMessages is called without a ledger
SendRun(k, toolDefs) ==
  LET userMsg == Msg("user", UserText)
      isSend == sends[k].kind = "send"
      sliced == SubSeq(sends[k].msgs, 1, Len(sends[k].msgs) - 1)
      messagesForPrompt == IF isSend THEN Append(sends[k].msgs, userMsg) ELSE sliced
  IN /\ Idle
     /\ sends[k].pc = "awaiting"
     /\ Len(rounds) < MaxRounds
     /\ toolDefs \in ToolDefSets
     /\ sends' = [sends EXCEPT ![k].pc = "done"]
     /\ IF isSend
        THEN /\ store' = Append(store, Stored("user", UserText, 0, "user"))
             /\ messages' = Append(messages, userMsg)
        ELSE /\ store' = store
             /\ messages' = sliced
     /\ ledgers' = Append(ledgers, createLedger(toolDefs))
     /\ rounds' = Append(rounds, NewRound(Len(ledgers) + 1, messagesForPrompt,
                                          Len(toolDefs) > 0, toolDefs))
     /\ UNCHANGED <<direct, streaming, abortRef, streamBufferRef, doneEvent, dispatches, now>>

(* ---------------------------- specification --------------------------- *)
\* one turn: a single sendMessage or regenerateLastResponse call on an idle chat view,
\* and everything that follows from it
Next ==
  \/ sendMessage(1)
  \/ regenerateLastResponse(1)
  \/ \E k \in 1..Len(sends) : SendNotConnected(k)
  \/ \E k \in 1..Len(sends), toolDefs \in ToolDefSets : SendRun(k, toolDefs)
  \/ \E r \in 1..Len(rounds) : RoundStart(r)
  \/ \E r \in 1..Len(rounds) : ListenDelta(r)
  \/ \E r \in 1..Len(rounds), out \in ModelOutputs : ListenDoneAndRequest(r, out)
  \/ \E r \in 1..Len(rounds) : Delta(r)
  \/ stopStreaming(FALSE)
  \/ \E r \in 1..Len(rounds), canceled \in BOOLEAN : DoneEvent(r, canceled)
  \/ \E r \in 1..Len(rounds) : HandleDone(r)
  \/ \E r \in 1..Len(rounds) : \E res \in ToolResults(rounds[r].tool) : DispatchReturn(r, res)
  \/ \E r \in 1..Len(rounds) : DispatchThrow(r)
  \/ \E r \in 1..Len(rounds) : StreamError(r)

Spec == Init /\ [][Next]_vars

\* one turn, with the history of Stop requests made during a tool dispatch kept
NextStop ==
  \/ sendMessage(1)
  \/ regenerateLastResponse(1)
  \/ \E k \in 1..Len(sends) : SendNotConnected(k)
  \/ \E k \in 1..Len(sends), toolDefs \in ToolDefSets : SendRun(k, toolDefs)
  \/ \E r \in 1..Len(rounds) : RoundStart(r)
  \/ \E r \in 1..Len(rounds) : ListenDelta(r)
  \/ \E r \in 1..Len(rounds), out \in ModelOutputs : ListenDoneAndRequest(r, out)
  \/ \E r \in 1..Len(rounds) : Delta(r)
  \/ stopStreaming(TRUE)
  \/ \E r \in 1..Len(rounds), canceled \in BOOLEAN : DoneEvent(r, canceled)
  \/ \E r \in 1..Len(rounds) : HandleDone(r)
  \/ \E r \in 1..Len(rounds) : \E res \in ToolResults(rounds[r].tool) : DispatchReturn(r, res)
  \/ \E r \in 1..Len(rounds) : DispatchThrow(r)
  \/ \E r \in 1..Len(rounds) : StreamError(r)

SpecStop == Init /\ [][NextStop]_vars

\* sendMessage and regenerateLastResponse calls in one run of the chat view
MaxTurns == 2

\* what the model streams in the runs of several turns
TurnOutputs == {OutClaimAnswer, OutWriteClaim, OutWebSearch}

\* no earlier call is still on its way to its first stream
Settled ==
  /\ \A k \in 1..Len(sends) : sends[k].pc = "done"
  /\ \A r \in 1..Len(rounds) : rounds[r].pc # "settings"

\* several turns of one chat view, each started after the one before has cleared the
\* streaming flag, with every tool enabled; no Stop, and streams end by completion or
\* by a rejected request
NextTurns ==
  \/ Settled /\ sendMessage(MaxTurns)
  \/ Settled /\ regenerateLastResponse(MaxTurns)
  \/ \E k \in 1..Len(sends) :
       SendRun(k, <<"web_search", "write_file", "obsidian_write_note">>)
  \/ \E r \in 1..Len(rounds) : RoundStart(r)
  \/ \E r \in 1..Len(rounds) : ListenDelta(r)
  \/ \E r \in 1..Len(rounds), out \in TurnOutputs : ListenDoneAndRequest(r, out)
  \/ \E r \in 1..Len(rounds) : Delta(r)
  \/ \E r \in 1..Len(rounds) : DoneEvent(r, FALSE)
  \/ \E r \in 1..Len(rounds) : HandleDone(r)
  \/ \E r \in 1..Len(rounds) : \E res \in ToolResults(rounds[r].tool) : DispatchReturn(r, res)
  \/ \E r \in 1..Len(rounds) : StreamError(r)

SpecTurns == Init /\ [][NextTurns]_vars

\* calls of sendMessage that may follow one another before the first has set the
\* streaming flag (a second press of Enter, or a click on a suggestion), each with no
\* tool enabled and a model that streams a plain final answer
NextOverlap ==
  \/ sendMessage(MaxTurns)
  \/ \E k \in 1..Len(sends) : SendNotConnected(k)
  \/ \E k \in 1..Len(sends) : SendRun(k, <<>>)
  \/ \E r \in 1..Len(rounds) : RoundStart(r)
  \/ \E r \in 1..Len(rounds) : ListenDelta(r)
  \/ \E r \in 1..Len(rounds) : ListenDoneAndRequest(r, OutPlainAnswer)
  \/ \E r \in 1..Len(rounds) : Delta(r)
  \/ stopStreaming(FALSE)
  \/ \E r \in 1..Len(rounds), canceled \in BOOLEAN : DoneEvent(r, canceled)
  \/ \E r \in 1..Len(rounds) : HandleDone(r)

SpecOverlap == Init /\ [][NextOverlap]_vars

\* one turn with every tool enabled, in which each stream that is requested is
\* delivered and completed, each completion is handled and each dispatch returns;
\* Stop may be pressed at any time while the streaming flag is set.  A dispatch that
\* returns when MaxRounds rounds have been called stands for a chain of tool rounds
\* that goes on.
NextFair ==
  \/ sendMessage(1)
  \/ \E k \in 1..Len(sends) :
       SendRun(k, <<"web_search", "write_file", "obsidian_write_note">>)
  \/ \E r \in 1..Len(rounds) : RoundStart(r)
  \/ \E r \in 1..Len(rounds) : ListenDelta(r)
  \/ \E r \in 1..Len(rounds), out \in {OutWebSearch, OutPlainAnswer} :
       ListenDoneAndRequest(r, out)
  \/ \E r \in 1..Len(rounds) : Delta(r)
  \/ stopStreaming(TRUE)
  \/ \E r \in 1..Len(rounds), canceled \in BOOLEAN : DoneEvent(r, canceled)
  \/ \E r \in 1..Len(rounds) : HandleDone(r)
  \/ \E r \in 1..Len(rounds) : \E res \in ToolResults(rounds[r].tool) : DispatchReturn(r, res)

SpecFair ==
  /\ Init
  /\ [][NextFair]_vars
  /\ WF_vars(\E k \in 1..Len(sends) :
               SendRun(k, <<"web_search", "write_file", "obsidian_write_note">>))
  /\ WF_vars(\E r \in 1..Len(rounds) : RoundStart(r))
  /\ WF_vars(\E r \in 1..Len(rounds) : ListenDelta(r))
  /\ WF_vars(\E r \in 1..Len(rounds), out \in {OutWebSearch, OutPlainAnswer} :
               ListenDoneAndRequest(r, out))
  /\ WF_vars(\E r \in 1..Len(rounds) : Delta(r))
  /\ WF_vars(\E r \in 1..Len(rounds), canceled \in BOOLEAN : DoneEvent(r, canceled))
  /\ WF_vars(\E r \in 1..Len(rounds) : HandleDone(r))
  /\ WF_vars(\E r \in 1..Len(rounds) :
               \E res \in ToolResults(rounds[r].tool) : DispatchReturn(r, res))

(* ------------------------ direct calls: the parser -------------------- *)
\* what the content string of a final_answer may hold between its quotes: words, an
\* escaped newline, nothing, braces (balanced or not) and code fences
FinalAnswerContents ==
  { <<"hello", SP, "Paris">>, <<"hello", ESCNL, "Paris">>, <<>>,
    <<"hello", SP, LB, "Paris", RB>>, <<"hello", RB>>, <<LB, "hello">>,
    <<FENCE, "hello", FENCE>>, <<"hello", FENCE, "Paris">> }

FinalAnswerObject(content) == <<LB, FA, CQ>> \o content \o <<QT, RB>>

\* the ways a model lays out its one JSON object
Wrappings == {"alone", "padded", "fence", "jsonFence", "prose"}
Wrap(w, obj) ==
  CASE w = "alone" -> obj
    [] w = "padded" -> <<NL, SP>> \o obj \o <<SP, NL>>
    [] w = "fence" -> <<FENCE, NL>> \o obj \o <<NL, FENCE>>
    [] w = "jsonFence" -> <<FENCE, TAGJSON, NL>> \o obj \o <<NL, FENCE>>
    [] w = "prose" -> <<"hello", ",", NL>> \o obj \o <<NL, "Paris", ".">>

\* well-formed intent objects, each on one line
IntentLines ==
  { FinalAnswerObject(<<"hello">>),
    FinalAnswerObject(<<"hello", FENCE, "Paris">>),
    <<LB, TR, "\"tool_name\":\"web_search\"", ARGS, LB, "\"query\":\"x\"", RB, RB>>,
    <<LB, TR, "\"tool_name\":\"write_file\"">> \o <<RB>> }

\* texts of two and of three lines
LinesTexts ==
  {a \o <<NL>> \o b : a, b \in IntentLines}
    \cup {a \o <<NL>> \o b \o <<NL>> \o c : a, b, c \in IntentLines}

\* objects and non-objects that may or may not be an intent
OtherTexts ==
  { <<LB, TR, "\"tool_name\":\"write_file\"", ARGSNULL, RB>>,
    <<LB, TR, "\"tool_name\":\"write_file\"", ARGS, LB, CQ, "hello", QT, RB, RB>>,
    <<LB, TR, "\"tool_name\":5", RB>>,
    <<LB, TR, RB>>,
    <<LB, "\"tool_name\":\"write_file\"", CQ, "hello", QT, RB>>,
    <<LB, "\"type\":\"other\"", "\"tool_name\":\"write_file\"", CQ, "hello", QT, RB>>,
    <<LB, FA, RB>>,
    <<LB, FA, "\"tool_name\":\"write_file\"", RB>>,
    <<LB, FA, CQ, "hello">>,
    <<LB, RB>>,
    <<RB, LB>>,
    <<"hello", SP, "Paris">>,
    << >> }

RawInputs ==
  {Wrap(w, FinalAnswerObject(c)) : w \in Wrappings, c \in FinalAnswerContents}
    \cup LinesTexts
    \cup {Wrap(w, t) : w \in Wrappings, t \in OtherTexts}

\* the chat view as constructed, with no conversation loaded
Constructed ==
  /\ rounds = <<>>
  /\ ledgers = <<>>
  /\ sends = <<>>
  /\ streaming = FALSE
  /\ messages = <<>>
  /\ abortRef = FALSE
  /\ streamBufferRef = <<>>
  /\ doneEvent = NoEvent
  /\ store = <<>>
  /\ dispatches = <<>>
  /\ now = 0

\* the chat view is as constructed, and parseToolResponse(raw) is about to be called
InitParse ==
  /\ direct \in {[fn |-> "parseToolResponse", returned |-> FALSE, arg |-> raw,
                   ret |-> NullResponse] : raw \in RawInputs}
  /\ Constructed

\* the call returns
ParseReturn ==
  /\ direct.fn = "parseToolResponse"
  /\ ~direct.returned
  /\ direct' = [direct EXCEPT !.returned = TRUE, !.ret = parseToolResponse(direct.arg)]
  /\ UNCHANGED <<rounds, ledgers, sends, streaming, messages, abortRef, streamBufferRef,
                 doneEvent, store, dispatches, now>>

NextParse == ParseReturn

SpecParse == InitParse /\ [][NextParse]_vars

(* ------------------------ direct calls: the ledger -------------------- *)
\* recordInvocation calls on one ledger
MaxEntries == 3

\* a tool output of one URL per line, for the URLs a..b
UrlLines(a, b) ==
  [i \in 1..(2 * (b - a + 1)) |-> IF i % 2 = 1 THEN Url(a + (i - 1) \div 2) ELSE NL]

\* a structured result cut short, which JSON.parse rejects
SearchCutShort ==
  <<LB, "\"result_count\":1", RESULTS, LB, "\"url\":\"https://example.com/1\"", RB>>

\* what a recordInvocation call may be given: name, status and raw output
LedgerEntries ==
  { [name |-> WEB_SEARCH, status |-> "success", output |-> SearchOneResult],
    [name |-> WEB_SEARCH, status |-> "success", output |-> SearchNoResult],
    [name |-> WEB_SEARCH, status |-> "success", output |-> SearchCutShort],
    [name |-> WEB_SEARCH, status |-> "success", output |-> UrlLines(1, MaxUrls \div 2)],
    [name |-> WEB_SEARCH, status |-> "success",
     output |-> UrlLines(MaxUrls \div 2 + 1, MaxUrls)],
    [name |-> WEB_SEARCH, status |-> "error", output |-> <<"Source:", SP, Url(2)>>],
    [name |-> "write_file", status |-> "success", output |-> <<"Wrote", SP, Url(2)>>],
    [name |-> "write_file", status |-> "error", output |-> <<>>] }

\* a ledger has been created, and recordInvocation calls may follow
InitLedger ==
  /\ direct = [fn |-> "recordInvocation", returned |-> TRUE,
               arg |-> createLedger(<<"web_search", "write_file">>), ret |-> <<>>]
  /\ Constructed

\* recordInvocation(ledger, name, args, status, resultSummary, rawOutput)
LedgerRecord(e) ==
  /\ direct.fn = "recordInvocation"
  /\ Len(direct.arg.invoked_tools) < MaxEntries
  /\ direct' = [direct EXCEPT !.arg = recordInvocation(@, e.name, EmptyArgs, e.status,
                                                       <<>>, e.output, now)]
  /\ UNCHANGED <<rounds, ledgers, sends, streaming, messages, abortRef, streamBufferRef,
                 doneEvent, store, dispatches, now>>

\* getWebSourcesFromLedger(ledger) is called and returns
SourcesReturn ==
  /\ direct.fn = "recordInvocation"
  /\ direct' = [fn |-> "getWebSourcesFromLedger",
                returned |-> ~Raises("getWebSourcesFromLedger", direct.arg), arg |-> direct.arg,
                ret |-> getWebSourcesFromLedger(direct.arg)]
  /\ UNCHANGED <<rounds, ledgers, sends, streaming, messages, abortRef, streamBufferRef,
                 doneEvent, store, dispatches, now>>

\* buildProvenanceFooter(ledger) is called and returns
FooterReturn ==
  /\ direct.fn = "recordInvocation"
  /\ direct' = [fn |-> "buildProvenanceFooter",
                returned |-> ~(\/ Raises("getLastWebSearchResult", direct.arg)
                               \/ Raises("getWebSourcesFromLedger", direct.arg)),
                arg |-> direct.arg,
                ret |-> buildProvenanceFooter(direct.arg, now)]
  /\ UNCHANGED <<rounds, ledgers, sends, streaming, messages, abortRef, streamBufferRef,
                 doneEvent, store, dispatches, now>>

NextLedger ==
  \/ \E e \in LedgerEntries : LedgerRecord(e)
  \/ SourcesReturn
  \/ FooterReturn

SpecLedger == InitLedger /\ [][NextLedger]_vars

(* -------------------- direct calls: malformed tool outputs ------------ *)
\* recordInvocation calls on one ledger whose outputs may be malformed
MaxOutputs == 2

\* a structured result with no results, and a URL in another member
SearchNoResultUrlElsewhere ==
  <<LB, "\"result_count\":0", RESULTS, RBRACK, "\"url\":\"https://example.com/2\"", RB>>

\* raw outputs a web_search may be recorded with: structured results, empty text,
\* text that is no JSON, JSON that is no object, and objects with members missing or
\* of the wrong type
SearchOutputs ==
  { SearchOneResult, SearchNoResult, SearchNoResultUrlElsewhere, SearchCutShort,
    <<>>,
    <<"Source:", SP, Url(2), NL, Url(3)>>,
    <<LBRACK, RBRACK>>,
    <<LB, "\"ok\":true", RB>>,
    <<LB, "\"result_count\":\"1\"", RESULTS, LB, "\"url\":\"https://example.com/1\"", RB,
      RBRACK, RB>>,
    <<LB, "\"result_count\":1", "\"results\":null", RB>>,
    <<LB, "\"result_count\":2", "\"provider\":\"\"", RESULTS,
      LB, "\"url\":\"\"", RB, LB, "\"url\":\"https://example.com/2\"", RB, RBRACK, RB>> }

OutputEntries ==
  { [name |-> WEB_SEARCH, status |-> "success", output |-> o] : o \in SearchOutputs }
    \cup { [name |-> WEB_SEARCH, status |-> "error", output |-> SearchOneResult],
           [name |-> "write_file", status |-> "success", output |-> SearchOneResult] }

\* webSearchSucceeded(ledger) is called and returns
SucceededReturn ==
  /\ direct.fn = "recordInvocation"
  /\ direct' = [fn |-> "webSearchSucceeded",
                returned |-> ~Raises("webSearchSucceeded", direct.arg), arg |-> direct.arg,
                ret |-> webSearchSucceeded(direct.arg)]
  /\ UNCHANGED <<rounds, ledgers, sends, streaming, messages, abortRef, streamBufferRef,
                 doneEvent, store, dispatches, now>>

\* getLastWebSearchResult(ledger) is called and returns
LastReturn ==
  /\ direct.fn = "recordInvocation"
  /\ direct' = [fn |-> "getLastWebSearchResult",
                returned |-> ~Raises("getLastWebSearchResult", direct.arg), arg |-> direct.arg,
                ret |-> getLastWebSearchResult(direct.arg)]
  /\ UNCHANGED <<rounds, ledgers, sends, streaming, messages, abortRef, streamBufferRef,
                 doneEvent, store, dispatches, now>>

NextOutputs ==
  \/ \E e \in OutputEntries :
       Len(direct.arg.invoked_tools) < MaxOutputs /\ LedgerRecord(e)
  \/ SucceededReturn
  \/ LastReturn
  \/ SourcesReturn
  \/ FooterReturn

SpecOutputs == InitLedger /\ [][NextOutputs]_vars

(* ----------------------- direct calls: the claim check ---------------- *)
\* the phrases the tests of hasFakeWebSearchClaim use, in the letter cases and with
\* the whitespace a model may write them
PhraseTexts ==
  { <<a, s, "searching">> : a \in {"after", "After", "AFTER"}, s \in {SP, NL} }
    \cup { <<i>> \o s \o <<"looked", SP, "it", SP, "up">> : i \in {"I", "i"}, s \in {<<SP>>, <<SP, SP>>} }
    \cup { <<a, SP, "to", s, "my", SP, "web", SP, "search">> :
             a \in {"according", "According"}, s \in {SP, NL} }
    \cup { <<i, SP, "found", s, "online">> : i \in {"I", "i"}, s \in {SP, NL} }
    \cup { <<"search", s, r, SP, "show">> : s \in {SP, NL}, r \in {"results", "result"} }
    \cup { <<"I", SP, "searched", SP, "the", SP, "web">>,
           <<"from", SP, "the", SP, "internet">>,
           <<"according", SP, "to", SP, "the", SP, "web">>,
           <<"according", NL, "to", SP, "the", SP, "web">>,
           <<"my", SP, "search", SP, "found">>,
           <<"quick", SP, "search", SP, "reveals">> }

\* what may stand before and after a phrase: nothing, whitespace, words set off by
\* whitespace or punctuation, and letters written on to the phrase without a gap
Before == { <<>>, <<NL, SP>>, <<"hello", SP>>, <<"hello", ",">>, <<"there">> }
After == { <<>>, <<".">>, <<SP, "Paris">>, <<"ed">> }

\* texts with none of the phrases, the empty text and whitespace-only texts
PlainTexts ==
  { <<>>, <<SP>>, <<NL, SP, NL>>,
    <<"I", SP, "used", SP, "my", SP, "training", SP, "knowledge", ".">>,
    <<"researching", SP, "the", SP, "web">>,
    <<"after", ",", SP, "searching">> }

CheckedTexts == {b \o t \o a : b \in Before, t \in PhraseTexts, a \in After} \cup PlainTexts

\* the chat view is as constructed, and hasFakeWebSearchClaim(text) is about to be called
InitClaimCheck ==
  /\ direct \in {[fn |-> "hasFakeWebSearchClaim", returned |-> FALSE, arg |-> text,
                   ret |-> FALSE] : text \in CheckedTexts}
  /\ Constructed

\* the call returns
ClaimCheckReturn ==
  /\ direct.fn = "hasFakeWebSearchClaim"
  /\ ~direct.returned
  /\ direct' = [direct EXCEPT !.returned = TRUE, !.ret = hasFakeWebSearchClaim(direct.arg)]
  /\ UNCHANGED <<rounds, ledgers, sends, streaming, messages, abortRef, streamBufferRef,
                 doneEvent, store, dispatches, now>>

SpecClaimCheck == InitClaimCheck /\ [][ClaimCheckReturn]_vars

(* ------------------------------ properties ---------------------------- *)
\* the ledger of turn t when it held n entries (entries are only ever appended)
LedgerAt(t, n) ==
  [ledgers[t] EXCEPT !.invoked_tools = SubSeq(@, 1, n), !.tool_outputs = SubSeq(@, 1, n)]

\* the api.addMessage calls made at the final commit of a handler
FinalCommits == {k \in 1..Len(store) : store[k].via = "final"}

\* the final commits of rounds that did not enter the tool_request branch and whose
\* completed output parses as a final_answer
FinalAnswerCommits ==
  {k \in FinalCommits :
     /\ rounds[store[k].by].branch = "final"
     /\ parseToolResponse(rounds[store[k].by].full).kind = "final_answer"}

\* the message of commit k is also the one shown
Emitted(k) ==
  \E m \in 1..Len(messages) : messages[m] = Msg(store[k].role, store[k].content)

C2_NoUnbackedClaimCommitted ==
  \A k \in FinalCommits :
    hasFakeWebSearchClaim(store[k].content)
      => webSearchSucceeded(LedgerAt(store[k].turn, store[k].ledgerLen))

\* the text of the end-to-end scenario
ClaimText == OutClaimProse[1]

\* C3 as stated: in a turn started with no tool definitions, when the completed
\* output is the text "After searching, the capital is Paris.", the committed
\* assistant content is the corrective message.
C3_DisabledToolsReplaced ==
  \A k \in FinalCommits :
    (rounds[store[k].by].toolDefs = <<>> /\ rounds[store[k].by].full = ClaimText)
      => store[k].content = CORRECTED_MESSAGE_NO_WEB_SEARCH

\* the api.executeMcpTool calls for a content-writing tool
WriteDispatches == {d \in 1..Len(dispatches) : dispatches[d].name \in WriteTools}

\* C4: the content argument of every write_file or obsidian_write_note dispatch ends
\* with the provenance footer built from the ledger of the turn as it stands at the
\* dispatch, and the ledger is not touched while the dispatch is under way.
C4_WriteEndsWithFooter ==
  /\ \A d \in WriteDispatches :
       LET call == dispatches[d]
       IN /\ call.args.hasContent
          /\ IsSuffix(buildProvenanceFooter(LedgerAt(call.turn, call.ledgerLen), call.at),
                      call.args.content)
          /\ rounds[call.by].args = call.args
  /\ \A d \in 1..Len(dispatches) :
       rounds[dispatches[d].by].pc = "dispatching"
         => Len(ledgers[dispatches[d].turn].invoked_tools) = dispatches[d].ledgerLen

\* a write was dispatched after a successful web_search of the same turn, with the
\* model's content left as it was
C4_WriteAfterSearch ==
  \E d \in WriteDispatches :
    /\ webSearchSucceeded(LedgerAt(dispatches[d].turn, dispatches[d].ledgerLen))
    /\ IsPrefix(dispatches[d].given.content, dispatches[d].args.content)
    /\ dispatches[d].name = "obsidian_write_note"

\* C5: when the content argument of a write-tool request holds a fake web-search
\* claim and the ledger has no successful web_search, the content dispatched is the
\* disclaimer, then the model's content, then the provenance footer.
C5_DisclaimerThenContentThenFooter ==
  \A d \in WriteDispatches :
    LET call == dispatches[d]
        ledger == LedgerAt(call.turn, call.ledgerLen)
    IN (call.given.hasContent /\ hasFakeWebSearchClaim(call.given.content)
          /\ ~webSearchSucceeded(ledger))
         => call.args.content =
              DISCLAIMER_NO_WEB_SEARCH \o call.given.content
                \o buildProvenanceFooter(ledger, call.at)

\* a write with a claim was dispatched in a turn with a failed web_search behind it
C5_ClaimWithoutSearch ==
  \E d \in WriteDispatches :
    /\ hasFakeWebSearchClaim(dispatches[d].given.content)
    /\ dispatches[d].ledgerLen = 1
    /\ ~webSearchSucceeded(LedgerAt(dispatches[d].turn, dispatches[d].ledgerLen))

\* the rounds of turn t
RoundsOf(t) == {r \in 1..Len(rounds) : rounds[r].turn = t}

\* the api.executeMcpTool calls made by round r
DispatchesBy(r) == {d \in 1..Len(dispatches) : dispatches[d].by = r}

\* C6: in every state, the ledger of a turn has at most as many entries as rounds of
\* the turn whose stream has completed, every round has dispatched at most one tool,
\* and while a dispatch is under way no other round of the turn is dispatching or
\* streaming.
C6_OneDispatchPerCompletedRound ==
  \A t \in 1..Len(ledgers) :
    /\ Len(ledgers[t].invoked_tools) <= Cardinality({r \in RoundsOf(t) : rounds[r].handled})
    /\ \A r \in RoundsOf(t) :
         /\ Cardinality(DispatchesBy(r)) <= 1
         /\ rounds[r].pc = "dispatching"
              => \A q \in RoundsOf(t) \ {r} :
                   rounds[q].pc # "dispatching" /\ rounds[q].stream # "active"

\* a third round is dispatching, after two rounds whose dispatches were recorded
C6_ThirdRoundDispatching ==
  \E r \in 1..Len(rounds) :
    /\ rounds[r].pc = "dispatching"
    /\ Len(ledgers[rounds[r].turn].invoked_tools) = 2
    /\ Cardinality(RoundsOf(rounds[r].turn)) = 3

\* C7: for every ledger that recordInvocation calls have built, webSearchSucceeded
\* is true exactly when some entry has name web_search and status success.
C7_WebSearchSucceededIff ==
  \A t \in 1..Len(ledgers) :
    \A n \in 0..Len(ledgers[t].invoked_tools) :
      webSearchSucceeded(LedgerAt(t, n))
        <=> \E k \in 1..n : /\ ledgers[t].invoked_tools[k].name = "web_search"
                             /\ ledgers[t].invoked_tools[k].status = "success"

\* a ledger holds a failed web_search and a successful write, and no successful search
C7_FailedSearchAndOtherTool ==
  \E t \in 1..Len(ledgers) :
    /\ \E k \in 1..Len(ledgers[t].invoked_tools) :
         /\ ledgers[t].invoked_tools[k].name = "web_search"
         /\ ledgers[t].invoked_tools[k].status = "error"
    /\ \E k \in 1..Len(ledgers[t].invoked_tools) :
         /\ ledgers[t].invoked_tools[k].name # "web_search"
         /\ ledgers[t].invoked_tools[k].status = "success"
    /\ ~webSearchSucceeded(ledgers[t])

\* the rounds whose handler went past the abort test and the empty-buffer test with
\* an output that is no response at all, or a tool_request for a tool not enabled
UnusableOutputRounds ==
  {r \in 1..Len(rounds) :
     /\ rounds[r].handled
     /\ rounds[r].branch \notin {"abort", "empty"}
     /\ LET parsed == parseToolResponse(rounds[r].full)
        IN \/ parsed.kind = "null"
           \/ parsed.kind = "tool_request" /\ parsed.tool_name \notin allowedToolNames(rounds[r])}

ToolRoundMessages(rd, res) ==
  << Msg("assistant", rd.full),
     Msg("user", <<"[Tool result from ", rd.tool, "]", NL>>
                   \o (IF res.ok THEN res.content ELSE <<"Error: ">> \o res.error)) >>

\* C9: when a dispatch returns a result, one entry is added to the ledger, with status
\* success exactly if ok is true; the assistant message with the raw buffer and then
\* the user message with the tool result, or "Error: " and the error, are added to the
\* history; and the next round is called with the history so extended, the same
\* ledger and the same tool definitions, whether the dispatch failed or not.
C9_DispatchResultStartsNextRound ==
  [][\A r \in 1..Len(rounds) :
       (rounds[r].pc = "dispatching" /\ rounds'[r].pc = "done" /\ ~rounds'[r].threw)
         => LET rd == rounds[r]
                res == rounds'[r].result
                before == ledgers[rd.turn].invoked_tools
                after == ledgers'[rd.turn].invoked_tools
                next == rounds'[Len(rounds')]
            IN /\ Len(after) = Len(before) + 1
               /\ SubSeq(after, 1, Len(before)) = before
               /\ after[Len(after)].name = rd.tool
               /\ after[Len(after)].status = (IF res.ok THEN "success" ELSE "error")
               /\ messages' = messages \o ToolRoundMessages(rd, res)
               /\ Len(store') = Len(store) + 2
               /\ <<store'[Len(store) + 1].content, store'[Len(store) + 2].content>>
                    = <<ToolRoundMessages(rd, res)[1].content,
                        ToolRoundMessages(rd, res)[2].content>>
               /\ Len(rounds') = Len(rounds) + 1
               /\ next.pc = "settings"
               /\ next.turn = rd.turn
               /\ next.messagesForPrompt = rd.messagesForPrompt \o ToolRoundMessages(rd, res)
               /\ next.toolDefs = rd.toolDefs
               /\ next.toolsEnabled
               /\ streaming /\ streaming'
    ]_vars

\* a failed dispatch was followed by the stream of a further round
C9_FailedDispatchFollowed ==
  \E r \in 1..Len(rounds) :
    /\ rounds[r].branch = "tool_request"
    /\ rounds[r].pc = "done"
    /\ ~rounds[r].threw
    /\ ~rounds[r].result.ok
    /\ r < Len(rounds)
    /\ rounds[r + 1].stream = "active"

AbortCommits(r) == {k \in 1..Len(store) : store[k].via = "abort" /\ store[k].by = r}

\* C11: when a round ends in the abort branch (abort flag set by stop, or the
\* completion event carries canceled = true) and the buffer is non-empty, the buffer
\* is committed as an assistant message; nothing is committed only when the buffer
\* is empty.
C11_PartialBufferCommitted ==
  \A r \in 1..Len(rounds) :
    rounds[r].branch = "abort"
      => IF rounds[r].full # <<>>
         THEN \E k \in AbortCommits(r) :
                store[k].role = "assistant" /\ store[k].content = rounds[r].full
         ELSE AbortCommits(r) = {}

\* C12: once the abort flag is set while a round streams, no later delta is added to
\* the buffer, and when the stream completes the parse result is not acted on: the
\* round ends in the abort branch, dispatches no tool, records no ledger entry and
\* starts no further round.
C12_AbortStopsBufferAndActing ==
  /\ [](\A r \in 1..Len(rounds) :
         rounds[r].cancel
           => /\ rounds[r].handled => rounds[r].branch = "abort"
              /\ DispatchesBy(r) = {}
              /\ rounds[r].result = NoResult
              /\ Len(ledgers[rounds[r].turn].invoked_tools)
                   <= Cardinality({q \in RoundsOf(rounds[r].turn) : q < r})
              /\ \A q \in RoundsOf(rounds[r].turn) : q <= r)
  /\ [][abortRef /\ abortRef' => streamBufferRef' = streamBufferRef]_vars

\* Stop was pressed in a second round after the whole of a request for an enabled
\* tool was buffered; the stream then completed without the canceled marker
C12_StoppedWithToolRequestBuffered ==
  \E r \in 2..Len(rounds) :
    /\ rounds[r].cancel
    /\ rounds[r].handled
    /\ ~doneEvent.canceled
    /\ entersToolRequest(rounds[r].toolsEnabled, allowedToolNames(rounds[r]), rounds[r].full)

\* C13: if Stop is requested while a round awaits its tool dispatch, the turn is
\* aborted: the output of the next round is not parsed and acted on (the round does
\* not end in the tool_request or final branch), and no later tool is dispatched in
\* the turn.
C13_StopWhileDispatchingAborts ==
  \A r \in 1..Len(rounds) :
    rounds[r].stopInDispatch
      => \A q \in RoundsOf(rounds[r].turn) :
           q > r => /\ rounds[q].branch \notin {"tool_request", "final"}
                    /\ DispatchesBy(q) = {}

\* C14: for every raw text that holds exactly one well-formed final_answer object
\* (alone, padded, in a code fence, or between lines of prose), whatever its content
\* string holds, parseToolResponse returns a final_answer whose content is the
\* object's content, decoded and otherwise unchanged.
C14_FinalAnswerContentUnchanged ==
  \A w \in Wrappings, c \in FinalAnswerContents :
    (direct.returned /\ direct.arg = Wrap(w, FinalAnswerObject(c)))
      => /\ direct.ret.kind = "final_answer"
         /\ direct.ret.content = Decode(c)

\* C15: for every raw text made of two or more well-formed intent objects on separate
\* lines, parseToolResponse returns the intent of the first line, and never the
\* intent of a later line.
C15_FirstLineIntentReturned ==
  \A a, b \in IntentLines :
    \A rest \in {<<>>} \cup {<<NL>> \o c : c \in IntentLines} :
      (direct.returned /\ direct.arg = a \o <<NL>> \o b \o rest)
        => direct.ret = parseOneJsonObject(a).out

\* the objects written in text: what JSON.parse makes of each part of the text that
\* runs from an opening brace to a closing brace
ObjectsIn(text) ==
  {p.val : p \in {q \in {JSONparse(SubSeq(text, i, j)) :
                           i \in {k \in 1..Len(text) : text[k] = LB},
                           j \in {k \in 1..Len(text) : text[k] = RB}} : q.ok}}

\* C16: parseToolResponse always returns: either null, or a tool_request made from an
\* object of the text with type tool_request and a string tool_name (with an empty
\* arguments map when the object has no arguments object), or a final_answer made
\* from an object with type final_answer and a string content.  A text holding no
\* such object (wrong or missing type, missing field, invalid JSON, no object) gets
\* null.
C16_IntentOnlyFromValidObject ==
  direct.returned
    => /\ direct.ret.kind \in {"null", "tool_request", "final_answer"}
       /\ direct.ret.kind = "tool_request"
            => \E obj \in ObjectsIn(direct.arg) :
                 /\ obj.type = "tool_request" /\ obj.nameIsStr
                 /\ direct.ret.tool_name = obj.tool_name
                 /\ direct.ret.arguments
                      = IF obj.arguments.isObj THEN obj.arguments ELSE EmptyArgs
       /\ direct.ret.kind = "final_answer"
            => \E obj \in ObjectsIn(direct.arg) :
                 /\ obj.type = "final_answer" /\ obj.hasContent
                 /\ direct.ret.content = obj.content

\* calls have returned for a tool_request with "arguments":null between lines of
\* prose, which got the empty arguments map
C16_ArgumentsNotAnObject ==
  /\ direct.returned
  /\ direct.arg = Wrap("prose", <<LB, TR, "\"tool_name\":\"write_file\"", ARGSNULL, RB>>)
  /\ direct.ret.kind = "tool_request"
  /\ direct.ret.arguments = EmptyArgs

\* C17: every turn begins with a fresh ledger, which holds nothing but what the
\* turn's own dispatches recorded; so in a turn T a final answer with a web-search
\* claim is committed verbatim only if the ledger of T holds a successful web_search,
\* and the footer of every write dispatched in T is built from the ledger of T: a
\* web_search of an earlier turn counts for neither.
C17_LedgerOfEarlierTurnNotUsed ==
  /\ \A t \in 1..Len(ledgers) :
       Len(ledgers[t].invoked_tools)
         = Cardinality({r \in RoundsOf(t) : rounds[r].result # NoResult})
  /\ \A k \in FinalAnswerCommits :
       (/\ rounds[store[k].by].toolsEnabled
        /\ store[k].content = parseToolResponse(rounds[store[k].by].full).content
        /\ hasFakeWebSearchClaim(store[k].content))
         => webSearchSucceeded(ledgers[store[k].during])
  /\ \A d \in WriteDispatches :
       \E n \in 0..Len(ledgers[dispatches[d].during].invoked_tools) :
         IsSuffix(buildProvenanceFooter(LedgerAt(dispatches[d].during, n), dispatches[d].at),
                  dispatches[d].args.content)

\* the text u stands in raw: as the value of a url member, or as the run of
\* characters from an "http" up to the next whitespace
StandsIn(u, raw) ==
  \E k \in 1..Len(raw) :
    \/ raw[k] \in UrlAtoms /\ UrlValue(raw[k]) = u
    \/ UrlPart(raw[k]) # "" /\ u = UrlPart(raw[k]) \o RestOfRun(raw, k + 1)

\* C18: for every ledger, getWebSourcesFromLedger returns a list without duplicates
\* and of at most 20 elements, and every returned URL stands in the raw output of an
\* entry with name web_search and status success; the outputs of failed web_search
\* entries and of other tools contribute nothing.
C18_SourcesDistinctCappedFromSuccessfulSearch ==
  direct.fn = "getWebSourcesFromLedger"
    => LET urls == direct.ret
           ledger == direct.arg
       IN /\ \A j, k \in 1..Len(urls) : urls[j] = urls[k] => j = k
          /\ Len(urls) <= 20
          /\ \A k \in 1..Len(urls) :
               \E i \in 1..Len(ledger.invoked_tools) :
                 /\ ledger.invoked_tools[i].name = WEB_SEARCH
                 /\ ledger.invoked_tools[i].status = "success"
                 /\ StandsIn(urls[k], ledger.tool_outputs[i])

\* the sources of a ledger of two successful searches with more than 20 URLs between
\* them, and a failed search whose output holds a URL
C18_MoreThanTwentyUrls ==
  /\ direct.fn = "getWebSourcesFromLedger"
  /\ Len(direct.ret) = 20
  /\ \E i \in 1..Len(direct.arg.invoked_tools) :
       /\ direct.arg.invoked_tools[i].status = "error"
       /\ direct.arg.tool_outputs[i] # <<>>

\* the names on the "Tools used" line of a footer: the tokens between the label and
\* the end of the line, without the separators
ToolsListed(footer) ==
  LET a == IndexFrom(footer, "- Tools used: ", 1)
      n == IndexFrom(footer, NL, a)
  IN SelectSeq(SubSeq(footer, a + 1, n - 1), LAMBDA t : t # ", ")

\* C19: the "Tools used" line lists the distinct names of the tools invoked
\* in the ledger, each name once even when the tool was invoked several times, and
\* reads "none" exactly when the ledger has no invocations.
C19_DistinctToolNamesListed ==
  direct.fn = "buildProvenanceFooter"
    => LET listed == ToolsListed(direct.ret)
           entries == direct.arg.invoked_tools
       IN /\ (listed = <<"none">>) <=> (Len(entries) = 0)
          /\ Len(entries) > 0
               => /\ \A i \in 1..Len(entries) :
                       Cardinality({k \in 1..Len(listed) : listed[k] = entries[i].name}) = 1
                  /\ \A k \in 1..Len(listed) :
                       \E i \in 1..Len(entries) : listed[k] = entries[i].name

\* the tokens of a footer after the "Source URLs" label, up to the end of the line
\* before the "Notes" line
SourcesListed(footer) ==
  LET a == IndexFrom(footer, "- Source URLs: ", 1)
      n == IndexFrom(footer, "- Notes: This assistant cannot browse the internet unless the web_search tool is enabled and was used.", a)
  IN SubSeq(footer, a + 1, n - 2)

\* C20: the footer holds the marker "None (offline)" exactly when the ledger yields no
\* source URL, and otherwise lists every URL of getWebSourcesFromLedger under
\* "Source URLs"; the footer of a ledger with no invocation holds the marker and
\* names no tool but "none".
C20_MarkerIffNoSourceUrl ==
  direct.fn = "buildProvenanceFooter"
    => LET footer == direct.ret
           sources == getWebSourcesFromLedger(direct.arg)
           marked == \E k \in 1..Len(footer) : footer[k] = "None (offline)"
       IN /\ marked <=> (Len(sources) = 0)
          /\ \A s \in 1..Len(sources) :
               \E k \in 1..Len(SourcesListed(footer)) : SourcesListed(footer)[k] = sources[s]
          /\ Len(direct.arg.invoked_tools) = 0
               => marked /\ ToolsListed(footer) = <<"none">>

\* the footer of a ledger whose only successful web_search gave no URL, next to
\* another invocation: the marker stands although tools were used
C20_SearchedWithoutUrl ==
  /\ direct.fn = "buildProvenanceFooter"
  /\ Len(direct.arg.invoked_tools) > 1
  /\ webSearchSucceeded(direct.arg)
  /\ getWebSourcesFromLedger(direct.arg) = <<>>
  /\ SourcesListed(direct.ret) = <<"None (offline)">>

\* the five phrases the claim lists, in lower case with single spaces
ListedPhrases ==
  { <<"after", SP, "searching">>,
    <<"i", SP, "looked", SP, "it", SP, "up">>,
    <<"according", SP, "to", SP, "my", SP, "web", SP, "search">>,
    <<"i", SP, "found", SP, "online">>,
    <<"search", SP, "results", SP, "show">> }

\* the letters of phrase phr stand somewhere in text, in any letter case
ContainsPhrase(text, phr) ==
  \E i \in 1..(Len(text) - Len(phr) + 1) :
    \A k \in 1..Len(phr) : Lower(text[i + k - 1]) = phr[k]

\* C21: hasFakeWebSearchClaim returns true for every text that contains one of
\* the listed phrases in any letter case, and false for empty or whitespace-only text
\* and for text that contains none of the phrases of the patterns.
C21_AsStated ==
  (direct.fn = "hasFakeWebSearchClaim" /\ direct.returned)
    => /\ (\E phr \in ListedPhrases : ContainsPhrase(direct.arg, phr)) => direct.ret
       /\ (\A k \in 1..Len(direct.arg) : direct.arg[k] \in WS) => ~direct.ret
       /\ (\A pat \in FAKE_WEB_SEARCH_PATTERNS :
             ~ContainsPhrase(direct.arg, [k \in 1..Len(pat) |->
                                            IF pat[k] = SPLUS THEN SP ELSE pat[k]]))
            => ~direct.ret

RECURSIVE Squeeze(_, _, _)
\* text from index i on in lower case, every run of whitespace other than one single
\* space made one \s+ item
Squeeze(text, i, acc) ==
  IF i > Len(text) THEN acc
  ELSE IF text[i] \in WS
    THEN Bind(SkipWs(text, i), LAMBDA j :
           Squeeze(text, j, Append(acc, IF j = i + 1 /\ text[i] = SP THEN SP ELSE SPLUS)))
  ELSE Squeeze(text, i + 1, Append(acc, Lower(text[i])))

\* the phrase of pattern pat stands in the squeezed text sq as whole words
StandsAsWords(sq, pat) ==
  \E i \in 1..(Len(sq) - Len(pat) + 1) :
    /\ i = 1 \/ sq[i - 1] \notin EndsWordChar
    /\ i + Len(pat) > Len(sq) \/ sq[i + Len(pat)] \notin StartsWordChar
    /\ \A k \in 1..Len(pat) :
         IF pat[k] = SPLUS THEN sq[i + k - 1] \in {SP, SPLUS} ELSE sq[i + k - 1] = pat[k]

\* C21, amended: hasFakeWebSearchClaim returns true exactly when the phrase of one of
\* the patterns stands in the text as whole words, in any letter case and with any
\* whitespace between its words; it returns false for empty and whitespace-only text.
C21_TrueIffPhraseStandsAsWords ==
  (direct.fn = "hasFakeWebSearchClaim" /\ direct.returned)
    => /\ direct.ret = (\E pat \in FAKE_WEB_SEARCH_PATTERNS :
                          StandsAsWords(Squeeze(direct.arg, 1, <<>>), pat))
       /\ (\A k \in 1..Len(direct.arg) : direct.arg[k] \in WS) => ~direct.ret

\* the check has answered false for "thereafter searching": a listed phrase with
\* letters written on before it
C21_PhraseInsideLongerWord ==
  /\ direct.fn = "hasFakeWebSearchClaim"
  /\ direct.returned
  /\ direct.arg = <<"there", "after", SP, "searching">>
  /\ ~direct.ret

C23_RecordOnlyAppends ==
  [][direct.fn = "recordInvocation"
       => LET old == direct.arg
              new == direct'.arg
              n == Len(old.invoked_tools)
          IN /\ Len(new.invoked_tools) = Len(new.tool_outputs)
             /\ IF direct'.fn = "recordInvocation"
                THEN /\ Len(new.invoked_tools) = n + 1
                     /\ SubSeq(new.invoked_tools, 1, n) = old.invoked_tools
                     /\ SubSeq(new.tool_outputs, 1, n) = old.tool_outputs
                     /\ \E e \in OutputEntries :
                          /\ new.invoked_tools[n + 1].name = e.name
                          /\ new.invoked_tools[n + 1].status = e.status
                          /\ new.tool_outputs[n + 1] = e.output
                ELSE new = old]_vars

\* an operation has been called on a ledger of two invocations, recorded with
\* different outputs
C23_TwoRecordedThenRead ==
  /\ direct.fn = "getWebSourcesFromLedger"
  /\ Len(direct.arg.invoked_tools) = 2
  /\ direct.arg.invoked_tools[1].name = "write_file"
  /\ direct.arg.invoked_tools[2].name = WEB_SEARCH
  /\ direct.arg.tool_outputs = <<SearchOneResult, SearchNoResult>>

\* the URLs of the structured result that raw parses to, in order and with repeats
StructuredUrls(raw) == PushTruthy(parseWebSearchOutput(raw).data.results, 1, <<>>)

\* C24: for a ledger of one successful web_search entry, getWebSourcesFromLedger
\* takes URLs from scanning the raw text only when the raw output does not parse as a
\* structured search result; when it parses, an empty results list included, every
\* URL returned is a results[].url of the structure.
C24_ScrapedOnlyWhenParseFails ==
  (/\ direct.fn = "getWebSourcesFromLedger"
   /\ Len(direct.arg.invoked_tools) = 1
   /\ direct.arg.invoked_tools[1].name = WEB_SEARCH
   /\ direct.arg.invoked_tools[1].status = "success"
   /\ ~parseWebSearchOutput(direct.arg.tool_outputs[1]).isNull)
    => \A k \in 1..Len(direct.ret) :
         \E j \in 1..Len(StructuredUrls(direct.arg.tool_outputs[1])) :
           direct.ret[k] = StructuredUrls(direct.arg.tool_outputs[1])[j]

\* the index of the most recent successful web_search entry of ledger (0 when none)
LastSuccessfulSearch(ledger) ==
  LET hits == {i \in 1..Len(ledger.invoked_tools) :
                 /\ ledger.invoked_tools[i].name = WEB_SEARCH
                 /\ ledger.invoked_tools[i].status = "success"}
  IN IF hits = {} THEN 0 ELSE CHOOSE i \in hits : \A j \in hits : j <= i

\* C25: getLastWebSearchResult returns result_count, provider and URLs of the most
\* recent successful web_search entry when its raw output parses as a structured
\* result, and none when that output does not parse or no successful web_search
\* entry exists; it never returns the data of an older invocation.
C25_OnlyMostRecentSuccessfulSearch ==
  direct.fn = "getLastWebSearchResult"
    => LET last == LastSuccessfulSearch(direct.arg)
           parsed == parseWebSearchOutput(direct.arg.tool_outputs[last])
       IN IF last = 0 THEN direct.ret.isNull
          ELSE IF parsed.isNull THEN direct.ret.isNull
          ELSE /\ ~direct.ret.isNull
               /\ direct.ret.result_count = parsed.data.result_count
               /\ direct.ret.provider = (IF parsed.data.hasProvider THEN parsed.data.provider
                                         ELSE "unknown")
               /\ direct.ret.urls = StructuredUrls(direct.arg.tool_outputs[last])

\* C30: the content dispatched to a write tool holds the content string the model
\* supplied in full, followed by the provenance footer, whether the rewrite prepends
\* the disclaimer, notes "could not verify" or changes nothing.
C30_ModelContentKept ==
  \A d \in WriteDispatches :
    LET call == dispatches[d]
        footer == buildProvenanceFooter(LedgerAt(call.turn, call.ledgerLen), call.at)
    IN call.given.hasContent
         => IsSuffix(call.given.content \o footer, call.args.content)

\* C28: each completion event is handled by one handler, that of the round whose
\* stream it ends: the listeners of a round are unregistered before a later round
\* starts, and no handler commits a message or dispatches a tool in a turn later
\* than its own.
C28_OneHandlerPerCompletion ==
  /\ Len(doneEvent.queue) <= 1
  /\ \A q, r \in 1..Len(rounds) : q < r => ~rounds[q].lDelta /\ ~rounds[q].lDone
  /\ \A k \in 1..Len(store) : store[k].by # 0 => store[k].during = store[k].turn
  /\ \A d \in 1..Len(dispatches) : dispatches[d].during = dispatches[d].turn

\* the commits of an assistant message made by the handlers and catch blocks of turn t
AssistantCommits(t) ==
  {k \in 1..Len(store) : store[k].role = "assistant" /\ rounds[store[k].by].turn = t}

\* C27: a turn that ends at the final commit of a handler commits one final
\* assistant message, after all tool-round messages of the turn, and on no path is
\* the buffer of one round committed twice as an assistant message: a round commits
\* at most once, and there are no more commits than streams that have ended.
C27_OneFinalCommitPerTurn ==
  /\ Cardinality({k \in 1..Len(store) : store[k].role = "assistant"})
       <= Cardinality({r \in 1..Len(rounds) : rounds[r].stream = "ended"})
  /\ \A t \in 1..Len(ledgers) :
      /\ Cardinality({k \in FinalCommits : rounds[store[k].by].turn = t}) <= 1
      /\ \A k \in FinalCommits :
           rounds[store[k].by].turn = t
             => \A j \in AssistantCommits(t) : j <= k
      /\ \A r \in RoundsOf(t) :
           Cardinality({k \in AssistantCommits(t) : store[k].by = r}) <= 1

\* C29: at most one turn is active at a time.  A sendMessage call made while an
\* earlier call has not reached its end starts no second stream: no two streams run
\* at once, and while a round streams no round of another turn resets the buffer
\* and the abort flag or registers listeners.
C29_AtMostOneActiveTurn ==
  /\ Cardinality({r \in 1..Len(rounds) : rounds[r].stream = "active"}) <= 1
  /\ \A q, r \in 1..Len(rounds) :
       (rounds[q].stream = "active" /\ rounds[r].turn # rounds[q].turn)
         => rounds[r].pc \notin {"listenDelta", "listenDone"}

\* the turn is over: the streaming flag is cleared, and no round is on its way to a
\* stream, streaming or dispatching
Terminal ==
  /\ ~streaming
  /\ \A k \in 1..Len(sends) : sends[k].pc = "done"
  /\ \A r \in 1..Len(rounds) :
       /\ rounds[r].pc \notin {"settings", "listenDelta", "listenDone", "dispatching"}
       /\ rounds[r].stream # "active"

\* the stream of some round has completed with an output that is no request for an
\* enabled tool
NonToolOutputCompleted ==
  \E r \in 1..Len(rounds) :
    /\ doneEvent.queue # <<>>
    /\ Head(doneEvent.queue) = r
    /\ ~entersToolRequest(rounds[r].toolsEnabled, allowedToolNames(rounds[r]), streamBufferRef)

\* the user has pressed Stop while a stream ran or while a tool was dispatched by a
\* round that is not the last the bound allows
UserCanceled ==
  \E r \in 1..Len(rounds) :
    \/ rounds[r].cancel
    \/ rounds[r].stopInDispatch /\ r < MaxRounds

====
